-------------------------- MODULE PaperLedgerProofs --------------------------
(***************************************************************************)
(* What follows from the promise of PaperLedger alone, for whatever keeps  *)
(* it: ScanBody does (LedgerImplementsPaperLedger in ScanBodyProofs).      *)
(***************************************************************************)
EXTENDS PaperLedger, TLAPS

LEMMA TypeStep == TypeOK /\ [Next]_vars => TypeOK'
<1> SUFFICES ASSUME TypeOK, [Next]_vars PROVE TypeOK'
    OBVIOUS
<1> USE DEF TypeOK
<1>1. ASSUME NEW s \in Scan, Lose(s) PROVE TypeOK'
    BY <1>1 DEF Lose
<1>2. ASSUME NEW p \in Position, Open(p) PROVE TypeOK'
    BY <1>2 DEF Open
<1>3. ASSUME NEW s \in Scan, NEW p \in Position, Close(s, p) PROVE TypeOK'
    BY <1>3 DEF Close
<1>4. ASSUME NEW s \in Scan, NEW p \in Position, Book(s, p) PROVE TypeOK'
    BY <1>4 DEF Book
<1>5. CASE Stray
    BY <1>5 DEF Stray
<1>6. CASE UNCHANGED vars
    BY <1>6 DEF vars
<1>7. QED
    BY <1>1, <1>2, <1>3, <1>4, <1>5, <1>6 DEF Next

LEMMA OnceStep == TypeOK /\ SettledOnce /\ [Next]_vars => SettledOnce'
<1> SUFFICES ASSUME TypeOK, SettledOnce, [Next]_vars PROVE SettledOnce'
    OBVIOUS
<1> USE DEF TypeOK, SettledOnce
<1>1. ASSUME NEW s \in Scan, Lose(s) PROVE SettledOnce'
    BY <1>1 DEF Lose
<1>2. ASSUME NEW p \in Position, Open(p) PROVE SettledOnce'
    BY <1>2 DEF Open
<1>3. ASSUME NEW s \in Scan, NEW p \in Position, Close(s, p) PROVE SettledOnce'
  <2>1. p \notin doubtful => \A r \in Scan : p \notin hands[r] \union results[r]
    BY <1>3 DEF Close
  <2>2. \A r \in Scan : hands'[r] = IF r = s THEN hands[r] \union {p} ELSE hands[r]
    BY <1>3 DEF Close
  <2>3. \A q \in Position : rows'[q] = IF q = p THEN "closed" ELSE rows[q]
    BY <1>3 DEF Close
  <2>4. UNCHANGED <<results, doubtful>>
    BY <1>3 DEF Close
  <2>5. \A r \in Scan : p \notin doubtful => p \notin hands[r] /\ p \notin results[r]
    BY <2>1
  <2>6. \A q \in Position : \A r \in Scan : q # p => (q \in hands'[r] <=> q \in hands[r])
    BY <2>2
  <2>7. \A r \in Scan : p \notin doubtful => (p \in hands'[r] <=> r = s)
    BY <2>2, <2>5
  <2>8. QED
    BY <2>3, <2>4, <2>5, <2>6, <2>7
<1>4. ASSUME NEW s \in Scan, NEW p \in Position, Book(s, p) PROVE SettledOnce'
  <2>1. \A r \in Scan, q \in Position :
          q \in hands'[r] <=> q \in hands[r] /\ ~(r = s /\ q = p)
    BY <1>4 DEF Book
  <2>2. \A r \in Scan, q \in Position :
          q \in results'[r] <=> q \in results[r] \/ (r = s /\ q = p)
    BY <1>4 DEF Book
  <2>3. p \in hands[s] /\ UNCHANGED <<rows, doubtful>>
    BY <1>4 DEF Book
  <2>4. \A q \in Position : \A r \in Scan :
          q \in hands'[r] \union results'[r] <=> q \in hands[r] \union results[r]
    BY <2>1, <2>2, <2>3
  <2>5. \A q \in Position : \A r \in Scan :
          q \notin doubtful /\ q \in hands[r] => q \notin results[r]
    OBVIOUS
  <2>6. \A q \in Position : \A r \in Scan :
          q \notin doubtful /\ q \in hands'[r] => q \notin results'[r]
    BY <2>1, <2>2, <2>5
  <2>7. QED
    BY <2>3, <2>4, <2>6
<1>5. CASE Stray
  <2>1. \A p \in Position \ doubtful' : p \notin doubtful /\ rows'[p] = rows[p]
    BY <1>5 DEF Stray
  <2>2. \A p \in Position \ doubtful' : \A s \in Scan :
          (p \in hands'[s] <=> p \in hands[s]) /\ (p \in results'[s] <=> p \in results[s])
    <3> SUFFICES ASSUME NEW p \in Position \ doubtful', NEW s \in Scan
                 PROVE  /\ p \in hands'[s] <=> p \in hands[s]
                        /\ p \in results'[s] <=> p \in results[s]
        OBVIOUS
    <3>1. hands'[s] \ doubtful' = hands[s] \ doubtful'
        BY <1>5 DEF Stray
    <3>2. results'[s] \ doubtful' = results[s] \ doubtful'
        BY <1>5 DEF Stray
    <3>3. QED
        BY <3>1, <3>2
  <2>3. QED
    BY <2>1, <2>2
<1>6. CASE UNCHANGED vars
    BY <1>6 DEF vars
<1>7. QED
    BY <1>1, <1>2, <1>3, <1>4, <1>5, <1>6 DEF Next

\* A ledger that keeps the promise never settles an undoubted position twice, in
\* one scan's books or in two, nor books one that is not closed.
THEOREM PromiseMeansOnce == Spec => [](TypeOK /\ SettledOnce)
<1>1. Init => TypeOK /\ SettledOnce
    BY DEF Init, TypeOK, SettledOnce
<1>2. QED
    BY <1>1, TypeStep, OnceStep, PTL DEF Spec
=============================================================================
