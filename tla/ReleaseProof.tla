---------------------------- MODULE ReleaseProof ----------------------------
(***************************************************************************)
(* The release proof: what the workflows Tests (.github/workflows/ci.yml), *)
(* Release Proof Input and Release Proof Attest make of the proof files    *)
(* that the commits of main retain in proof/release, with the verifiers    *)
(* they run (scripts/validate_manifest.py, verify_release.py and           *)
(* verify_release_remote.py).                                              *)
(*                                                                         *)
(* A retained proof is told by what the verifiers disagree about: the      *)
(* commit its manifest names as built, and how manifest_digest was         *)
(* computed.  The hash of a commit covers its files, so that a manifest    *)
(* names an earlier commit.  Everything else is as the verifiers want it:  *)
(* signatures, digests, fields, and all other steps of the workflows.      *)
(***************************************************************************)
EXTENDS Naturals, Sequences

CONSTANTS
  MaxCommits,  \* bound: commits of main
  MaxRuns,     \* bound: dispatches of Release Proof Input
  None

\* "tbd": over the manifest with manifest_digest set to "TBD"; "without": over
\* the manifest without it.  No digest is both.
Proof == [build_commit : 1 .. MaxCommits, digest_of : {"tbd", "without"}]

Conclusions == {"none", "running", "success", "failure"}

VARIABLES
  main,    \* the commits of main: the proof each retains, or None
  tests,   \* the run of Tests for each commit
  input,   \* the runs of Release Proof Input: head commit, conclusion,
           \* and the proof in the uploaded archive
  attest   \* the run of Release Proof Attest for each of them

vars == <<main, tests, input, attest>>

InputRun == [head_sha : Nat, conclusion : Conclusions,
             archive : Proof \cup {None}]

TypeOK ==
  /\ main \in Seq(Proof \cup {None})
  /\ tests \in Seq(Conclusions) /\ Len(tests) = Len(main)
  /\ input \in Seq(InputRun)
  /\ attest \in Seq(Conclusions) /\ Len(attest) = Len(input)

Init == main = <<>> /\ tests = <<>> /\ input = <<>> /\ attest = <<>>

Concluded(ok) == IF ok THEN "success" ELSE "failure"

-----------------------------------------------------------------------------
(***************************************************************************)
(* The verifiers                                                           *)
(***************************************************************************)

\* validate_manifest: there is a manifest, and its digest is its own.
ManifestValid(proof) == proof # None /\ proof.digest_of = "tbd"

\* verify_release_inputs.
InputsVerified(proof) == proof # None /\ proof.digest_of = "without"

\* find_successful_tests_workflow_run.
TestsFound(sha) == tests[sha] = "success"

\* The attestation that the workflow writes into ci_release_sha.json.
CiRelease(n) ==
  [sha |-> input[n].head_sha, workflow_run_id |-> n,
   workflow_conclusion |-> input[n].conclusion,
   tests_workflow_head_sha |-> input[n].head_sha,
   proof_input |-> input[n].archive]

\* verify_release_dir.
DirVerified(proof, ci) ==
  /\ InputsVerified(proof)
  /\ ci.proof_input = proof
  /\ ci.workflow_conclusion = "success"
  /\ ci.sha = proof.build_commit
  /\ ci.tests_workflow_head_sha = proof.build_commit

\* verify_release_remote: the declared runs are those of GitHub, and the
\* archive it keeps for the run holds the retained proof.
RemoteVerified(proof, ci) ==
  /\ DirVerified(proof, ci)
  /\ LET run == input[ci.workflow_run_id] IN
     run.head_sha = ci.sha /\ run.conclusion = "success" /\ run.archive = proof
  /\ tests[ci.tests_workflow_head_sha] = "success"

-----------------------------------------------------------------------------
(***************************************************************************)
(* The workflows                                                           *)
(***************************************************************************)

\* A push to main starts Tests.
Push(proof) ==
  /\ Len(main) < MaxCommits
  /\ main' = Append(main, proof)
  /\ tests' = Append(tests, "running")
  /\ UNCHANGED <<input, attest>>

TestsEnd(sha) ==
  /\ tests[sha] = "running"
  /\ tests' = [tests EXCEPT ![sha] = Concluded(ManifestValid(main[sha]))]
  /\ UNCHANGED <<main, input, attest>>

\* Release Proof Input is dispatched by hand, for the head of main.
Dispatch ==
  /\ main # <<>> /\ Len(input) < MaxRuns
  /\ input' = Append(input, [head_sha |-> Len(main), conclusion |-> "running",
                             archive |-> None])
  /\ attest' = Append(attest, "none")
  /\ UNCHANGED <<main, tests>>

\* The archive is uploaded when the inputs were verified; the completed run
\* starts Release Proof Attest, once.
InputEnds(n) ==
  LET proof == main[input[n].head_sha]
      ok == InputsVerified(proof) IN
  /\ input[n].conclusion = "running"
  /\ input' = [input EXCEPT ![n] =
                 [head_sha |-> input[n].head_sha, conclusion |-> Concluded(ok),
                  archive |-> IF ok THEN proof ELSE None]]
  /\ attest' = IF ok THEN [attest EXCEPT ![n] = "running"] ELSE attest
  /\ UNCHANGED <<main, tests>>

\* It does not wait for Tests.
AttestEnds(n) ==
  LET proof == input[n].archive IN
  /\ attest[n] = "running"
  /\ attest' = [attest EXCEPT ![n] =
       Concluded(/\ InputsVerified(proof)
                 /\ TestsFound(input[n].head_sha)
                 /\ RemoteVerified(proof, CiRelease(n)))]
  /\ UNCHANGED <<main, tests, input>>

Next ==
  \/ Push(None)
  \/ \E proof \in Proof : proof.build_commit <= Len(main) /\ Push(proof)
  \/ \E sha \in DOMAIN tests : TestsEnd(sha)
  \/ Dispatch
  \/ \E n \in DOMAIN input : InputEnds(n) \/ AttestEnds(n)

\* GitHub runs what was triggered, and the release is tried again as long as
\* the bounds allow.
Spec == Init /\ [][Next]_vars /\ WF_vars(Next)

-----------------------------------------------------------------------------
\* docs/release/criteria.md:14-24: Release Proof Input verifies the retained
\* inputs, and Release Proof Attest, from that completed run, attests the
\* commit: once inputs have been verified, some release is attested.
InputAttested ==
  (\E n \in DOMAIN input : input[n].conclusion = "success")
    ~> (\E n \in DOMAIN attest : attest[n] = "success")
=============================================================================
