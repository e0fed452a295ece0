------------------------- MODULE HCP2SeqlockProofs -------------------------
(***************************************************************************)
(* Proofs about HCP2Seqlock, for every number of fields, attempts and      *)
(* publications: the types, that no read is torn, that a read is as fresh  *)
(* as it must be, and that successive reads never go back.                 *)
(***************************************************************************)
EXTENDS HCP2Seqlock, TLAPS

USE NumFieldsAssumption, MaxAttemptsAssumption, RejectZeroAssumption

\* The parity facts the lock rests on: the number a publication stores first
\* is odd and larger than every earlier one, the number after it is even.
LEMMA OddAfterFacts ==
    ASSUME NEW n \in Nat
    PROVE  /\ OddAfter(n) \in Nat
           /\ OddAfter(n) > n
           /\ Odd(OddAfter(n))
BY DEF OddAfter, Odd, Even

LEMMA ParityFacts ==
    ASSUME NEW n \in Nat
    PROVE  /\ Odd(n) <=> ~Even(n)
           /\ Odd(n) => Even(n + 1)
BY DEF Odd, Even

\* Every step keeps the state variables in their types.
LEMMA TypeStep == TypeOK /\ [Next]_vars => TypeOK'
<1> SUFFICES ASSUME TypeOK, [Next]_vars PROVE TypeOK'
    OBVIOUS
<1> USE DEF TypeOK, Fields, mailboxVars, writerVars, readerVars, outVars
<1>1. CASE WriteBegin
    <2>1. OddAfter(seq) \in Nat
        BY OddAfterFacts
    <2> QED
        BY <1>1, <2>1, SMTT(60) DEF WriteBegin
<1>2. CASE WriteField
    BY <1>2, SMTT(60) DEF WriteField
<1>3. CASE WriteEnd
    BY <1>3, SMTT(60) DEF WriteEnd
<1>4. CASE WriterReset
    BY <1>4 DEF WriterReset
<1>5. CASE ReadCall
    BY <1>5, SMTT(60) DEF ReadCall
<1>6. CASE ReadBeforeSkip
    BY <1>6 DEF ReadBeforeSkip, Retry
<1>7. CASE ReadBefore
    BY <1>7, SMTT(60) DEF ReadBefore
<1>8. CASE ReadField
    BY <1>8, SMTT(60) DEF ReadField
<1>9. CASE ReadAfterAccept
    BY <1>9 DEF ReadAfterAccept
<1>10. CASE ReadAfterReject
    BY <1>10 DEF ReadAfterReject, Retry
<1>11. CASE ReaderReset
    BY <1>11 DEF ReaderReset
<1>12. CASE UNCHANGED vars
    BY <1>12 DEF vars
<1> QED
    BY <1>1, <1>2, <1>3, <1>4, <1>5, <1>6, <1>7, <1>8, <1>9, <1>10, <1>11, <1>12
    DEF Next, ReaderStep

\* Spec keeps every state variable in its type.
THEOREM TypeCorrect == Spec => []TypeOK
<1>1. Init => TypeOK
    BY DEF Init, TypeOK, Fields, Blank
<1> QED
    BY <1>1, TypeStep, PTL DEF Spec

\* Every step keeps SeqlockInv.  The publisher's half only depends on the
\* publisher's steps; the reader's half survives them because each of their
\* stores to the record happens while the sequence is odd.
LEMMA InvStep == SeqlockInv /\ [Next]_vars => SeqlockInv'
<1> SUFFICES ASSUME SeqlockInv, [Next]_vars PROVE SeqlockInv'
    OBVIOUS
<1>0. TypeOK /\ TypeOK'
    BY TypeStep DEF SeqlockInv
<1> USE <1>0 DEF SeqlockInv, TypeOK, WriterInv, ReaderInv, NoTornRead, FreshRead,
                 Fields, mailboxVars, writerVars, readerVars, outVars
<1>1. CASE WriteBegin
    <2>1. /\ OddAfter(seq) > seq
          /\ Odd(OddAfter(seq)) /\ ~Even(OddAfter(seq))
        BY OddAfterFacts, ParityFacts
    <2> QED
        BY <1>1, <2>1, SMTT(60) DEF WriteBegin
<1>2. CASE WriteField
    <2>1. Odd(seq) /\ ~Even(seq)
        BY <1>2, ParityFacts DEF WriteField
    <2>2. WriterInv'
        BY <1>2, <2>1 DEF WriteField
    <2>3. ReaderInv'
        BY <1>2, <2>1 DEF WriteField
    <2> QED
        BY <1>2, <2>2, <2>3 DEF WriteField
<1>3. CASE WriteEnd
    <2>1. seq' > seq /\ \A f \in Fields : mem[f] = started
        BY <1>3 DEF WriteEnd
    <2>2. WriterInv'
        BY <1>3, <2>1 DEF WriteEnd
    <2>3. ReaderInv'
        BY <1>3, <2>1 DEF WriteEnd
    <2> QED
        BY <1>3, <2>2, <2>3, SMTT(60) DEF WriteEnd
<1>4. CASE WriterReset
    BY <1>4 DEF WriterReset
<1>5. CASE ReadCall
    BY <1>5 DEF ReadCall
<1>6. CASE ReadBeforeSkip
    BY <1>6 DEF ReadBeforeSkip, Retry
<1>7. CASE ReadBefore
    <2>1. Even(seq)
        BY <1>7, ParityFacts DEF ReadBefore, NotReadable
    <2> QED
        BY <1>7, <2>1 DEF ReadBefore
<1>8. CASE ReadField
    BY <1>8, SMTT(60) DEF ReadField
<1>9. CASE ReadAfterAccept
    <2>1. \A f \in Fields : snapshot[f] = committed
        BY <1>9 DEF ReadAfterAccept, SnapshotValid
    <2> QED
        BY <1>9, <2>1, SMTT(60) DEF ReadAfterAccept
<1>10. CASE ReadAfterReject
    BY <1>10 DEF ReadAfterReject, Retry
<1>11. CASE ReaderReset
    BY <1>11 DEF ReaderReset
<1>12. CASE UNCHANGED vars
    BY <1>12 DEF vars
<1> QED
    BY <1>1, <1>2, <1>3, <1>4, <1>5, <1>6, <1>7, <1>8, <1>9, <1>10, <1>11, <1>12
    DEF Next, ReaderStep

LEMMA InvInit == Init => SeqlockInv
BY DEF Init, SeqlockInv, TypeOK, WriterInv, ReaderInv, NoTornRead, FreshRead,
       Fields, Blank

THEOREM InvCorrect == Spec => []SeqlockInv
BY InvInit, InvStep, PTL DEF Spec

\* No read returns a mixture of two publications.
THEOREM ReadsAreNotTorn == Spec => []NoTornRead
<1>1. SeqlockInv => NoTornRead
    BY DEF SeqlockInv
<1> QED
    BY <1>1, InvCorrect, PTL

\* Every read returns a completed publication, and none older than the last
\* one completed when its attempt began.
THEOREM ReadsAreFresh == Spec => []FreshRead
<1>1. SeqlockInv => FreshRead
    BY DEF SeqlockInv
<1> QED
    BY <1>1, InvCorrect, PTL

\* The sequence lock implements an atomic register: completing a publication
\* is Publish, accepting a snapshot is Read, every other step is a stutter.
THEOREM Implements == Spec => ImplementsRegister
<1>1. Init => Register!Init
    BY DEF Init, Blank, Register!Init
<1>2. SeqlockInv /\ [Next]_vars => [Register!Next]_<<committed, out>>
    <2> SUFFICES ASSUME SeqlockInv, [Next]_vars, UNCHANGED <<committed, out>> => FALSE
                 PROVE  Register!Next
        OBVIOUS
    <2> USE DEF SeqlockInv, TypeOK, WriterInv, ReaderInv, Fields
    <2>1. CASE ReadAfterAccept
        <3>1. /\ DOMAIN snapshot = Fields
              /\ snapshot = [f \in Fields |-> snapshot[f]]
              /\ \A f \in Fields : snapshot[f] = committed
            BY <2>1 DEF ReadAfterAccept, SnapshotValid
        <3>2. out' = [f \in Fields |-> committed]
            BY <2>1, <3>1 DEF ReadAfterAccept
        <3> QED
            BY <2>1, <3>2 DEF ReadAfterAccept, writerVars, Register!Next, Register!Read
    <2>2. CASE WriteEnd
        BY <2>2 DEF WriteEnd, outVars, Register!Next, Register!Publish
    <2>3. CASE ~ReadAfterAccept /\ ~WriteEnd
        BY <2>3 DEF Next, ReaderStep, WriteBegin, WriteField, WriterReset, ReadCall,
                    ReadBeforeSkip, ReadBefore, ReadField, ReadAfterReject,
                    ReaderReset, vars, writerVars, outVars
    <2> QED
        BY <2>1, <2>2, <2>3
<1> QED
    BY <1>1, <1>2, InvCorrect, PTL DEF Spec, ImplementsRegister, Register!Spec
=============================================================================
