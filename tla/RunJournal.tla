------------------------------ MODULE RunJournal ------------------------------
(***************************************************************************)
(* The event journal of a run, events.jsonl, written by the process that   *)
(* is under the scan process lock: one line per event, numbered.           *)
(*                                                                         *)
(* Code: scanner/run_journal.py (append_event, load_events) and            *)
(* scanner/jsonl_store.py (repair_truncated_jsonl_tail); history.jsonl is  *)
(* appended to in the same way, without numbers (scanner/history_store.py).*)
(*                                                                         *)
(* A process writes while ScanLock has it "inside", one event at a time    *)
(* (RunJournalStore._lock).  The number of the last event is cached in the *)
(* process and lost with it.  A line is its number; of the bytes there is  *)
(* whether they parse and whether the last line has its newline.           *)
(***************************************************************************)
EXTENDS ScanLock, Sequences

CONSTANT
    Events    \* how many events there are to write, for each of the Budgets

VARIABLES
    lines,    \* events.jsonl: the numbers of its lines
    ended,    \* its last byte is a newline (or it is empty)
    step,     \* per process: where append_event is
    num,      \* the number it has taken
    cached,   \* _last_sequence_by_run[run_id]; 0 when it is not there
    acked,    \* the numbers of the appends that returned, in order (observation)
    left      \* events that are still to be written

journalVars == <<lines, ended, step, num, cached, acked, left>>
allVars == <<vars, journalVars>>

Torn == 0     \* a line that does not parse

ASSUME JournalAssumption == Events \in [Budgets -> Nat]

JournalTypeOK ==
    /\ lines \in Seq(Nat)
    /\ ended \in BOOLEAN
    /\ step \in [Procs -> {"none", "repaired", "numbered"}]
    /\ num \in [Procs -> Nat]
    /\ cached \in [Procs -> Nat]
    /\ acked \in Seq(Nat \ {0})
    /\ left \in Nat

JournalInit ==
    /\ Init
    /\ lines = <<>>
    /\ ended = TRUE
    /\ step = [p \in Procs |-> "none"]
    /\ num = [p \in Procs |-> 0]
    /\ cached = [p \in Procs |-> 0]
    /\ acked = <<>>
    /\ left = Events[budget]

-----------------------------------------------------------------------------
(* The file.                                                               *)

LastLine == lines[Len(lines)]

(* What load_events returns ends at the first line that does not parse.     *)
Reads(j) == \A k \in 1..j : lines[k] # Torn

(* int(events[-1]["sequence"]), or 0 without events. *)
LastNumber ==
    IF \E j \in 1..Len(lines) : Reads(j)
    THEN lines[CHOOSE j \in 1..Len(lines) : Reads(j) /\ (j < Len(lines) => lines[j + 1] = Torn)]
    ELSE 0

(* The bytes of event n follow the last byte of the file.                   *)
Put(n) ==
    lines' = IF ended THEN Append(lines, n)
             ELSE [lines EXCEPT ![Len(lines)] = Torn]

(* Mutant: a last line without a newline is left as it is, if it parses.    *)
RepairTornOnly ==
    IF lines # <<>> /\ LastLine = Torn
    THEN lines' = SubSeq(lines, 1, Len(lines) - 1) /\ ended' = TRUE
    ELSE UNCHANGED <<lines, ended>>

(* repair_truncated_jsonl_tail *)
Repair ==
    /\ lines' = IF lines # <<>> /\ LastLine = Torn
                THEN SubSeq(lines, 1, Len(lines) - 1)
                ELSE lines
    /\ ended' = TRUE

-----------------------------------------------------------------------------
(* append_event of process p.                                              *)

StartAppend(p) ==
    /\ pc[p] = "inside"
    /\ step[p] = "none"
    /\ left > 0
    /\ left' = left - 1
    /\ Repair
    /\ step' = [step EXCEPT ![p] = "repaired"]
    /\ UNCHANGED <<vars, num, cached, acked>>

(* Mutant: the first number of a process is the last one of the file.       *)
NextSequenceFromLast(p) == IF cached[p] # 0 THEN cached[p] + 1 ELSE LastNumber

(* _next_sequence *)
NextSequence(p) == IF cached[p] # 0 THEN cached[p] + 1 ELSE LastNumber + 1

(* Mutant: the cache is advanced before the line is written.                *)
TakeNumberAndCache(p) ==
    /\ step[p] = "repaired"
    /\ num' = [num EXCEPT ![p] = NextSequence(p)]
    /\ cached' = num'
    /\ step' = [step EXCEPT ![p] = "numbered"]
    /\ UNCHANGED <<vars, lines, ended, acked, left>>

TakeNumber(p) ==
    /\ step[p] = "repaired"
    /\ num' = [num EXCEPT ![p] = NextSequence(p)]
    /\ step' = [step EXCEPT ![p] = "numbered"]
    /\ UNCHANGED <<vars, lines, ended, cached, acked, left>>

AppendLine(p) ==
    /\ step[p] = "numbered"
    /\ Put(num[p])
    /\ ended' = TRUE
    /\ cached' = [cached EXCEPT ![p] = num[p]]
    /\ acked' = Append(acked, num[p])
    /\ step' = [step EXCEPT ![p] = "none"]
    /\ UNCHANGED <<vars, num, left>>

(* What a write that does not return may leave of event n.                  *)
PutInPart(n) ==
    \/ UNCHANGED <<lines, ended>>
    \/ Put(Torn) /\ ended' = FALSE
    \/ Put(n) /\ ended' \in BOOLEAN

(* OSError: append_event raises, and the session goes on to fail or end.    *)
AppendFails(p) ==
    /\ step[p] = "numbered"
    /\ PutInPart(num[p])
    /\ step' = [step EXCEPT ![p] = "none"]
    /\ UNCHANGED <<vars, num, cached, acked, left>>

-----------------------------------------------------------------------------
(* The session ends after its events; with the process goes its cache.      *)

DiesWriting(p) == step[p] = "numbered" /\ pc'[p] = "dead"

Forgotten(f, none) == [p \in Procs |-> IF pc'[p] = "inside" THEN f[p] ELSE none]

(* Mutant: the process and its cache outlive the session.                   *)
CacheKept == cached

CacheLeft == Forgotten(cached, 0)

LockStep ==
    /\ Next
    /\ \A p \in Procs : step[p] # "none" => pc'[p] \in {"inside", "dead"}
    /\ step' = Forgotten(step, "none")
    /\ num' = Forgotten(num, 0)
    /\ cached' = CacheLeft
    /\ \/ UNCHANGED <<lines, ended>>
       \/ \E p \in Procs : DiesWriting(p) /\ PutInPart(num[p])
    /\ UNCHANGED <<acked, left>>

Writes(p) == StartAppend(p) \/ TakeNumber(p) \/ AppendLine(p)

JournalNext ==
    \/ LockStep
    \/ \E p \in Procs : Writes(p) \/ AppendFails(p)

JournalSpec == JournalInit /\ [][JournalNext]_allVars

(* The lock's, and an append that has begun goes on.                        *)
JournalFairness ==
    /\ Fairness
    /\ \A p \in Procs : WF_allVars(TakeNumber(p) \/ AppendLine(p))

FairJournalSpec == JournalSpec /\ JournalFairness

-----------------------------------------------------------------------------
(* Properties.                                                             *)

(* An event whose append returned stays readable, whatever crashes, failed  *)
(* writes and repairs of the tail come after it: what load_events returns   *)
(* has it, and so has the history, which is appended to in the same way.    *)
EventsSurvive ==
    \A i \in 1..Len(acked) : \E j \in 1..Len(lines) : lines[j] = acked[i] /\ Reads(j)

(* No two appends that returned have the same number, and the later one has *)
(* the higher, also when different processes made them.                     *)
NumbersAscend == \A i, j \in 1..Len(acked) : i < j => acked[i] < acked[j]

(* The numbers in the file have no gap and never go back; one is repeated   *)
(* only after a write that failed and yet became durable.                   *)
NumbersHaveNoGap ==
    \A j \in 1..Len(lines) :
        Reads(j) => IF j = 1 THEN lines[j] = 1 ELSE lines[j] - lines[j - 1] \in {0, 1}
=============================================================================
