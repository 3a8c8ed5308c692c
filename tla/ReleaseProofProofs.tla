------------------------- MODULE ReleaseProofProofs -------------------------
(***************************************************************************)
(* No commit of main is ever attested, however many are pushed and however *)
(* often it is tried: the manifest a commit retains names an earlier one,  *)
(* and the attestation must name the commit itself.                        *)
(***************************************************************************)
EXTENDS ReleaseProof, TLAPS

\* What a retained manifest names came before.
NamesEarlier ==
  \A sha \in DOMAIN main : main[sha] # None => main[sha].build_commit < sha

\* An uploaded archive holds what its run's head commit retains, and only a
\* run that uploaded one is followed by Release Proof Attest.
ArchiveOfHead ==
  \A n \in DOMAIN input :
    /\ input[n].head_sha \in DOMAIN main
    /\ input[n].archive # None => input[n].archive = main[input[n].head_sha]

\* The question: no run of Release Proof Attest succeeds.
NeverAttested == \A n \in DOMAIN attest : attest[n] # "success"

IInv == TypeOK /\ NamesEarlier /\ ArchiveOfHead /\ NeverAttested

LEMMA InitInv == Init => IInv
BY DEF Init, IInv, TypeOK, NamesEarlier, ArchiveOfHead, NeverAttested

\* A push adds a manifest that names an earlier commit.
LEMMA PushInv ==
  ASSUME IInv, NEW proof \in Proof \cup {None}, Push(proof),
         proof # None => proof \in Proof /\ proof.build_commit <= Len(main)
  PROVE  IInv'
<1>1. TypeOK'
  BY DEF IInv, TypeOK, Push, Conclusions
<1>2. NamesEarlier'
  BY DEF IInv, TypeOK, Push, NamesEarlier, Proof
<1>3. ArchiveOfHead' /\ NeverAttested'
  BY DEF IInv, TypeOK, Push, ArchiveOfHead, NeverAttested
<1> QED BY <1>1, <1>2, <1>3 DEF IInv

LEMMA TestsEndInv ==
  ASSUME IInv, NEW sha \in DOMAIN tests, TestsEnd(sha)
  PROVE  IInv'
<1>1. TypeOK'
  BY DEF IInv, TypeOK, TestsEnd, Conclusions, Concluded
<1>2. NamesEarlier' /\ ArchiveOfHead' /\ NeverAttested'
  BY DEF IInv, TestsEnd, NamesEarlier, ArchiveOfHead, NeverAttested
<1> QED BY <1>1, <1>2 DEF IInv

LEMMA DispatchInv ==
  ASSUME IInv, Dispatch
  PROVE  IInv'
<1>1. Len(main) \in DOMAIN main /\ Len(main) \in Nat
  BY DEF IInv, TypeOK, Dispatch
<1>2. TypeOK'
  BY <1>1 DEF IInv, TypeOK, Dispatch, Conclusions, InputRun
<1>3. NamesEarlier' /\ ArchiveOfHead' /\ NeverAttested'
  BY <1>1 DEF IInv, TypeOK, Dispatch, NamesEarlier, ArchiveOfHead, NeverAttested
<1> QED BY <1>2, <1>3 DEF IInv

LEMMA InputEndsInv ==
  ASSUME IInv, NEW n \in DOMAIN input, InputEnds(n)
  PROVE  IInv'
<1> DEFINE proof == main[input[n].head_sha]
<1>1. proof \in Proof \cup {None}
  BY DEF IInv, TypeOK, ArchiveOfHead
<1>2. TypeOK'
  <2> DEFINE ok == InputsVerified(proof)
             run == [head_sha |-> input[n].head_sha,
                     conclusion |-> Concluded(ok),
                     archive |-> IF ok THEN proof ELSE None]
  <2>1. input[n] \in InputRun /\ input \in Seq(InputRun)
    BY DEF IInv, TypeOK
  <2>2. run \in InputRun
    <3>1. Concluded(ok) \in Conclusions
      BY DEF Concluded, Conclusions
    <3>2. (IF ok THEN proof ELSE None) \in Proof \cup {None}
      BY <1>1
    <3>3. input[n].head_sha \in Nat
      BY <2>1 DEF InputRun
    <3> QED BY <3>1, <3>2, <3>3 DEF InputRun
  <2>3. input' = [input EXCEPT ![n] = run]
    BY DEF InputEnds
  <2>4. /\ attest' = IF ok THEN [attest EXCEPT ![n] = "running"] ELSE attest
        /\ UNCHANGED <<main, tests>>
    BY DEF InputEnds
  <2> HIDE DEF ok, run
  <2>5. input' \in Seq(InputRun) /\ Len(input') = Len(input)
    BY <2>1, <2>2, <2>3
  <2>6. attest' \in Seq(Conclusions) /\ Len(attest') = Len(attest)
    <3>1. /\ attest \in Seq(Conclusions) /\ "running" \in Conclusions
          /\ n \in 1 .. Len(attest)
      BY DEF IInv, TypeOK, Conclusions
    <3>2. CASE ok
      <4>1. attest' = [attest EXCEPT ![n] = "running"]
        BY <2>4, <3>2
      <4> QED BY <3>1, <4>1
    <3>3. CASE ~ok
      BY <2>4, <3>1, <3>3
    <3> QED BY <3>2, <3>3
  <2>7. main' \in Seq(Proof \cup {None}) /\ tests' \in Seq(Conclusions)
        /\ Len(tests') = Len(main') /\ Len(attest) = Len(input)
    BY <2>4 DEF IInv, TypeOK
  <2> QED BY <2>5, <2>6, <2>7 DEF TypeOK
<1>3. ArchiveOfHead'
  BY <1>1 DEF IInv, TypeOK, InputEnds, ArchiveOfHead
<1>4. NamesEarlier' /\ NeverAttested'
  BY DEF IInv, TypeOK, InputEnds, NamesEarlier, NeverAttested
<1> QED BY <1>2, <1>3, <1>4 DEF IInv

\* The heart of it: the archive names a commit before the head of its run,
\* and the attestation names the head.
LEMMA AttestFails ==
  ASSUME IInv, NEW n \in DOMAIN input
  PROVE  ~ (/\ InputsVerified(input[n].archive)
            /\ RemoteVerified(input[n].archive, CiRelease(n)))
<1> DEFINE proof == input[n].archive
<1> SUFFICES ASSUME proof # None, CiRelease(n).sha = proof.build_commit
             PROVE  FALSE
  BY DEF InputsVerified, RemoteVerified, DirVerified
<1>1. proof = main[input[n].head_sha] /\ input[n].head_sha \in DOMAIN main
  BY DEF IInv, ArchiveOfHead
<1>2. proof.build_commit < input[n].head_sha
  BY <1>1 DEF IInv, NamesEarlier
<1>3. proof.build_commit = input[n].head_sha
  BY DEF CiRelease
<1> QED BY <1>1, <1>2, <1>3 DEF IInv, TypeOK

LEMMA AttestEndsInv ==
  ASSUME IInv, NEW n \in DOMAIN input, AttestEnds(n)
  PROVE  IInv'
<1>1. attest' = [attest EXCEPT ![n] = "failure"]
  BY AttestFails DEF AttestEnds, Concluded
<1>2. UNCHANGED <<main, tests, input>>
  BY DEF AttestEnds
<1>3. TypeOK'
  BY <1>1, <1>2 DEF IInv, TypeOK, Conclusions
<1>4. NamesEarlier' /\ ArchiveOfHead' /\ NeverAttested'
  BY <1>1, <1>2 DEF IInv, NamesEarlier, ArchiveOfHead, NeverAttested
<1> QED BY <1>3, <1>4 DEF IInv

LEMMA NextInv == IInv /\ [Next]_vars => IInv'
<1> SUFFICES ASSUME IInv, [Next]_vars PROVE IInv'
  OBVIOUS
<1>1. CASE Push(None)
  BY <1>1, PushInv
<1>2. ASSUME NEW proof \in Proof, proof.build_commit <= Len(main), Push(proof)
      PROVE  IInv'
  BY <1>2, PushInv
<1>3. ASSUME NEW sha \in DOMAIN tests, TestsEnd(sha) PROVE IInv'
  BY <1>3, TestsEndInv
<1>4. CASE Dispatch
  BY <1>4, DispatchInv
<1>5. ASSUME NEW n \in DOMAIN input, InputEnds(n) PROVE IInv'
  BY <1>5, InputEndsInv
<1>6. ASSUME NEW n \in DOMAIN input, AttestEnds(n) PROVE IInv'
  BY <1>6, AttestEndsInv
<1>7. CASE UNCHANGED vars
  BY <1>7 DEF vars, IInv, TypeOK, NamesEarlier, ArchiveOfHead, NeverAttested
<1> QED BY <1>1, <1>2, <1>3, <1>4, <1>5, <1>6, <1>7 DEF Next

LEMMA Invariance == Spec => []IInv
<1> QED BY InitInv, NextInv, PTL DEF Spec

\* The values of the commits, runs and conclusions of the workflows.
THEOREM ReleaseTypes == Spec => []TypeOK
<1>1. IInv => TypeOK
  BY DEF IInv
<1> QED BY <1>1, Invariance, PTL

\* docs/release/criteria.md:18: Release Proof Attest "generates
\* ci_release_sha.json" and verifies the bundle: it never succeeds.
THEOREM NothingAttested == Spec => []NeverAttested
<1>1. IInv => NeverAttested
  BY DEF IInv
<1> QED BY <1>1, Invariance, PTL
=============================================================================
