------------------------------ MODULE MCBucket ------------------------------
(* Bucket with four slots (maxSteps = 3), streams that start just before   *)
(* the 16-bit wrap or at 1, gaps of up to two lost packets, late packets   *)
(* up to three behind the head, and a recycled slice holding seq 65534.    *)
EXTENDS Bucket

MCFirstSeqs == {65533, 1}
MCStaleSeqs == {65534}

\* The skip loop of AddPacket (bucket.go 86-91) written out one iteration at
\* a time: the reference SkipSteps is checked against.
SkipLoop(s, k) ==
  LET f[i \in Nat] == IF i = 0 THEN s
                      ELSE IF f[i - 1] + 1 >= MaxSteps THEN 0 ELSE f[i - 1] + 1
  IN f[k]

\* The closed form agrees with the loop for every start slot and every gap
\* up to three times the ring size.
ASSUME SkipStepsMatchesLoop ==
  \A s \in Slots, k \in 0 .. 3 * (MaxSteps + 1) : SkipSteps(s, k) = SkipLoop(s, k)
=============================================================================
