---------------------------- MODULE HCP2Seqlock ----------------------------
(***************************************************************************)
(* The sequence lock of the HCP2 mailbox (hcp2_mailbox.c).  Two blocks of  *)
(* the mailbox are guarded by one: the configuration, written by the HP    *)
(* CPU and read by the LP core, and the drive state, written by the LP     *)
(* core and read by the HP CPU.  The two CPUs share no lock: each store    *)
(* and each load is a step of its own here, and either CPU may be reset    *)
(* between any two of them while the mailbox RAM survives.                 *)
(*                                                                         *)
(* The payload of a field is abstracted to the number of the publication   *)
(* that wrote it.                                                          *)
(***************************************************************************)
EXTENDS Naturals

CONSTANTS
    NumFields,      \* fields of the guarded block, written and read in order
    MaxAttempts,    \* tries of one read call before it gives up
    MaxVersion,     \* bound on the publications (TLC)
    RejectZero      \* TRUE for the config reader: sequence 0 is "never written",
                    \* and so is a field that is zero

ASSUME NumFieldsAssumption   == NumFields \in Nat \ {0}
ASSUME MaxAttemptsAssumption == MaxAttempts \in Nat \ {0}
ASSUME RejectZeroAssumption  == RejectZero \in BOOLEAN

Fields == 1..NumFields

VARIABLES
    seq,        \* config_sequence / state_seq
    mem,        \* the guarded fields
    wpc,        \* publisher: "idle" or storing "fields"
    wnext,      \* publisher: the next field to store
    wsequence,  \* publisher: its local `sequence`
    started,    \* ghost: publications begun, the value the next fields carry
    committed,  \* ghost: the last publication that was completed
    rpc,        \* reader: "idle", loading "before", or copying "fields"
    rnext,      \* reader: the next field to copy
    attempt,    \* reader: attempts used up by this call
    before,     \* reader: its local `before`
    snapshot,   \* reader: its local `snapshot`
    floor,      \* ghost: `committed` when this attempt loaded `before`
    out,        \* the last snapshot a read call returned
    outFloor    \* ghost: its floor

mailboxVars == <<seq, mem>>
writerVars  == <<wpc, wnext, wsequence, started, committed>>
readerVars  == <<rpc, rnext, attempt, before, snapshot, floor>>
outVars     == <<out, outFloor>>
vars == <<mailboxVars, writerVars, readerVars, outVars>>

Odd(n)  == n % 2 = 1
Even(n) == n % 2 = 0

Blank == [f \in Fields |-> 0]

\* The mailbox is zeroed (hcp2_lp_mailbox_init) before either CPU uses it.
Init ==
    /\ seq = 0 /\ mem = Blank
    /\ wpc = "idle" /\ wnext = 1 /\ wsequence = 0
    /\ started = 0 /\ committed = 0
    /\ rpc = "idle" /\ rnext = 1 /\ attempt = 0
    /\ before = 0 /\ snapshot = Blank /\ floor = 0
    /\ out = Blank /\ outFloor = 0

----------------------------------------------------------------------------
(* The publisher: hcp2_lp_mailbox_write_config / hcp2_lp_mailbox_publish_state *)

\* Mutant: only incremented, which is even after an abandoned write.
OddAfterNoParity(n) == n + 1

\* The sequence a publication stores first.  A publisher that was reset in
\* the middle of a write left an odd number behind: the next odd is taken.
OddAfter(n) == IF Even(n + 1) THEN n + 2 ELSE n + 1

WriteBegin ==
    /\ wpc = "idle"
    /\ started < MaxVersion
    /\ started' = started + 1
    /\ seq' = OddAfter(seq)
    /\ wsequence' = OddAfter(seq)
    /\ wpc' = "fields"
    /\ wnext' = 1
    /\ UNCHANGED <<mem, committed, readerVars, outVars>>

WriteField ==
    /\ wpc = "fields"
    /\ wnext <= NumFields
    /\ mem' = [mem EXCEPT ![wnext] = started]
    /\ wnext' = wnext + 1
    /\ UNCHANGED <<seq, wpc, wsequence, started, committed, readerVars, outVars>>

WriteEnd ==
    /\ wpc = "fields"
    /\ wnext > NumFields
    /\ seq' = wsequence + 1
    /\ committed' = started
    /\ wpc' = "idle"
    /\ UNCHANGED <<mem, wnext, wsequence, started, readerVars, outVars>>

\* The publisher's CPU is reset; the RAM keeps what was stored so far.
WriterReset ==
    /\ wpc = "fields"
    /\ wpc' = "idle"
    /\ UNCHANGED <<mailboxVars, wnext, wsequence, started, committed,
                   readerVars, outVars>>

----------------------------------------------------------------------------
(* The reader: hcp2_lp_mailbox_read_config / hcp2_lp_mailbox_read_state    *)

ReadCall ==
    /\ rpc = "idle"
    /\ rpc' = "before"
    /\ attempt' = 0
    /\ UNCHANGED <<mailboxVars, writerVars, rnext, before, snapshot, floor,
                   outVars>>

\* Mutant: one attempt too many.
RetryOneMore == rpc' = IF attempt' <= MaxAttempts THEN "before" ELSE "idle"

\* An attempt that came to nothing: another one, or the call returns 0.
Retry == rpc' = IF attempt' < MaxAttempts THEN "before" ELSE "idle"

\* Mutant: the parity the wrong way round.
NotReadableSwapped == Even(seq) \/ (RejectZero /\ seq = 0)

\* A publication in progress, and for the config "never written": `continue`.
NotReadable == Odd(seq) \/ (RejectZero /\ seq = 0)

ReadBeforeSkip ==
    /\ rpc = "before"
    /\ NotReadable
    /\ attempt' = attempt + 1
    /\ Retry
    /\ UNCHANGED <<mailboxVars, writerVars, rnext, before, snapshot, floor,
                   outVars>>

ReadBefore ==
    /\ rpc = "before"
    /\ ~NotReadable
    /\ before' = seq
    /\ floor' = committed
    /\ rnext' = 1
    /\ rpc' = "fields"
    /\ UNCHANGED <<mailboxVars, writerVars, attempt, snapshot, outVars>>

ReadField ==
    /\ rpc = "fields"
    /\ rnext <= NumFields
    /\ snapshot' = [snapshot EXCEPT ![rnext] = mem[rnext]]
    /\ rnext' = rnext + 1
    /\ UNCHANGED <<mailboxVars, writerVars, rpc, attempt, before, floor, outVars>>

\* Mutants: the sequence is not loaded again; only its parity is looked at.
SnapshotValidUnchecked  == Even(before)
SnapshotValidParityOnly == Even(seq)

\* The snapshot is returned only if `after` equals `before` and is even; the LP
\* core also refuses a configuration with a field that is zero.
SnapshotValid ==
    /\ before = seq /\ Even(seq)
    /\ RejectZero => \A f \in Fields : snapshot[f] # 0

ReadAfterAccept ==
    /\ rpc = "fields"
    /\ rnext > NumFields
    /\ SnapshotValid
    /\ out' = snapshot
    /\ outFloor' = floor
    /\ rpc' = "idle"
    /\ UNCHANGED <<mailboxVars, writerVars, rnext, attempt, before, snapshot, floor>>

ReadAfterReject ==
    /\ rpc = "fields"
    /\ rnext > NumFields
    /\ ~SnapshotValid
    /\ attempt' = attempt + 1
    /\ Retry
    /\ UNCHANGED <<mailboxVars, writerVars, rnext, before, snapshot, floor, outVars>>

\* The reader's CPU is reset in the middle of a call: its locals are lost.
ReaderReset ==
    /\ rpc # "idle"
    /\ rpc' = "idle"
    /\ UNCHANGED <<mailboxVars, writerVars, rnext, attempt, before, snapshot,
                   floor, outVars>>

----------------------------------------------------------------------------
ReaderStep == ReadCall \/ ReadBeforeSkip \/ ReadBefore \/ ReadField
              \/ ReadAfterAccept \/ ReadAfterReject

Next == WriteBegin \/ WriteField \/ WriteEnd \/ WriterReset
        \/ ReaderStep \/ ReaderReset

Spec == Init /\ [][Next]_vars

\* The reader is polled forever (the LP main loop, the HP supervisor task);
\* a publication that was begun goes on unless its CPU is reset.
FairSpec == Spec /\ WF_vars(ReaderStep) /\ WF_vars(WriteField \/ WriteEnd)

----------------------------------------------------------------------------
(* Properties                                                              *)

TypeOK ==
    /\ seq \in Nat
    /\ mem \in [Fields -> Nat]
    /\ wpc \in {"idle", "fields"}
    /\ wnext \in 1..(NumFields + 1)
    /\ wsequence \in Nat
    /\ started \in Nat
    /\ committed \in Nat
    /\ rpc \in {"idle", "before", "fields"}
    /\ rnext \in 1..(NumFields + 1)
    /\ attempt \in 0..MaxAttempts
    /\ rpc # "idle" => attempt < MaxAttempts
    /\ before \in Nat
    /\ snapshot \in [Fields -> Nat]
    /\ floor \in Nat
    /\ out \in [Fields -> Nat]
    /\ outFloor \in Nat

\* A read never returns a mixture of two publications, however the loads of
\* one CPU fall between the stores of the other and whichever of them was
\* reset half way (hcp2_lp_mailbox_read_config, hcp2_lp_mailbox_read_state).
NoTornRead == \A f, g \in Fields : out[f] = out[g]

\* A read never returns a publication older than the last one completed when
\* the successful attempt began, nor one that its writer abandoned.
FreshRead == \A f \in Fields : /\ out[f] >= outFloor
                               /\ out[f] <= committed

\* The block is an atomic register: an accepted read returns the publication
\* that is the last completed one at that instant, all fields of it.
Register == INSTANCE HCP2Register WITH val <- committed
ImplementsRegister == Register!Spec

\* The inductive invariant behind NoTornRead, FreshRead and ImplementsRegister:
\* an even sequence means a complete record, the sequence only grows, and an
\* attempt whose `before` is still current has copied only that record.
WriterInv ==
    /\ committed <= started
    /\ wpc = "fields" => /\ Odd(seq)
                         /\ wsequence = seq
                         /\ \A f \in Fields : f < wnext => mem[f] = started
    /\ Even(seq) => \A f \in Fields : mem[f] = committed

ReaderInv ==
    rpc = "fields" =>
        /\ Even(before)
        /\ before <= seq
        /\ floor <= committed
        /\ before = seq =>
               \A f \in Fields : f < rnext => snapshot[f] = mem[f]

SeqlockInv == TypeOK /\ WriterInv /\ ReaderInv /\ NoTornRead /\ FreshRead

\* Once the publisher has stopped with a completed publication and the
\* reader is no longer reset, the reader, whose read calls give up after
\* MaxAttempts but are made again on every loop, returns that publication.
Converges ==
    \A v \in 1..MaxVersion :
        (/\ <>[](committed = v /\ Even(seq))
         /\ <>[][~ReaderReset]_vars)
        => <>(\A f \in Fields : out[f] = v)
=============================================================================
