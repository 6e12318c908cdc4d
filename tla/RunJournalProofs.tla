--------------------------- MODULE RunJournalProofs ---------------------------
(***************************************************************************)
(* Theorems about RunJournal for any set of processes, any number of       *)
(* events, crashes and failed writes.                                      *)
(***************************************************************************)
EXTENDS RunJournal, ScanLockProofs, SequenceTheorems

(* Only the process inside the lock has an append under way or a number in  *)
(* its cache; by ScanLockExcludes there is at most one.                     *)
Apart == \A p \in Procs : step[p] # "none" \/ cached[p] # 0 => pc[p] = "inside"

Ready == \A p \in Procs : step[p] # "none" => ended = TRUE

(* Only the last line may be torn, and then it has no newline.              *)
Whole ==
    /\ ended = FALSE => lines # <<>>
    /\ \A j \in 1..Len(lines) : lines[j] = Torn => j = Len(lines) /\ ended = FALSE

Monotone ==
    \A j, k \in 1..Len(lines) : j <= k /\ lines[k] # Torn => lines[j] <= lines[k]

LastAt(j) == lines[j] # Torn /\ (j = Len(lines) \/ lines[j + 1] = Torn)

(* n may be the next number: it is that of the last line that parses, or    *)
(* one more.                                                                *)
Follows(n) ==
    /\ n # 0
    /\ \A j \in 1..Len(lines) : LastAt(j) => lines[j] \in {n - 1, n}
    /\ (\A j \in 1..Len(lines) : lines[j] = Torn) => n = 1

(* The cache and the number taken are those of the file.                    *)
Fits(p) ==
    /\ cached[p] # 0 =>
         /\ Follows(cached[p] + 1)
         /\ \A i \in 1..Len(acked) : acked[i] <= cached[p]
    /\ step[p] = "numbered" =>
         /\ Follows(num[p])
         /\ \A i \in 1..Len(acked) : acked[i] < num[p]
         /\ cached[p] # 0 => num[p] = cached[p] + 1

FileOK == Whole /\ Monotone /\ NumbersHaveNoGap

JournalInv ==
    /\ LockInv
    /\ JournalTypeOK
    /\ Apart
    /\ Ready
    /\ FileOK
    /\ EventsSurvive
    /\ NumbersAscend
    /\ \A p \in Procs : Fits(p)

-----------------------------------------------------------------------------
(* What the steps do to the file.                                          *)

(* Of a file with at most a torn tail, the lines that parse are those that  *)
(* are read.                                                                *)
LEMMA ReadsWhole ==
  ASSUME JournalTypeOK, Whole, NEW j \in 1..Len(lines)
  PROVE  Reads(j) <=> lines[j] # Torn
  BY DEF JournalTypeOK, Whole, Reads

(* The bytes of an event behind a whole line are a line of their own.       *)
LEMMA PutFacts ==
  ASSUME JournalTypeOK, ended = TRUE, NEW n \in Nat, Put(n)
  PROVE  /\ lines' \in Seq(Nat)
         /\ Len(lines') = Len(lines) + 1
         /\ \A j \in 1..Len(lines) : lines'[j] = lines[j]
         /\ lines'[Len(lines) + 1] = n
  BY AppendProperties DEF JournalTypeOK, Put

(* The repair of the tail leaves every line that parses, and no other.      *)
LEMMA RepairFacts ==
  ASSUME JournalTypeOK, Whole, Repair
  PROVE  /\ lines' \in Seq(Nat)
         /\ ended' = TRUE
         /\ Len(lines') <= Len(lines)
         /\ \A j \in 1..Len(lines') : lines'[j] = lines[j] /\ lines[j] # Torn
         /\ \A j \in 1..Len(lines) : lines[j] # Torn => j \in 1..Len(lines')
  <1>1. /\ lines \in Seq(Nat) /\ Len(lines) \in Nat
        /\ lines # <<>> => Len(lines) > 0
        /\ lines = <<>> => Len(lines) = 0
    BY EmptySeq DEF JournalTypeOK
  <1>2. CASE lines # <<>> /\ LastLine = Torn
    <2>1. lines' = SubSeq(lines, 1, Len(lines) - 1)
      BY <1>2 DEF Repair
    <2>2. \A i \in 1..Len(lines) - 1 : lines[i] \in Nat
      BY <1>1, ElementOfSeq
    <2>3. Len(lines) - 1 \in Int /\ 1 <= Len(lines) /\ 1 \in Int
      BY <1>1, <1>2
    <2>4. /\ lines' \in Seq(Nat)
          /\ Len(lines') = IF 1 <= Len(lines) - 1 THEN (Len(lines) - 1) - 1 + 1 ELSE 0
          /\ \A i \in 1..(Len(lines) - 1) - 1 + 1 : lines'[i] = lines[1 + i - 1]
      BY <2>1, <2>2, <2>3, SubSeqProperties
    <2>5. /\ Len(lines') = Len(lines) - 1
          /\ \A i \in 1..Len(lines) - 1 : lines'[i] = lines[i]
      <3>1. \A i \in 1..Len(lines) - 1 : i \in 1..(Len(lines) - 1) - 1 + 1 /\ 1 + i - 1 = i
        BY <1>1, <2>3
      <3>2. Len(lines) \in Nat
        BY <1>1
      <3>3. Len(lines') = IF 1 <= Len(lines) - 1 THEN (Len(lines) - 1) - 1 + 1 ELSE 0
        BY <2>4
      <3>4. Len(lines') = Len(lines) - 1
        BY <2>3, <3>2, <3>3
      <3> QED
        BY <2>4, <3>1, <3>4, Zenon
    <2> QED
      BY <1>1, <1>2, <2>4, <2>5 DEF Repair, Whole, LastLine
  <1>3. CASE ~(lines # <<>> /\ LastLine = Torn)
    <2>1. lines' = lines /\ ended' = TRUE
      BY <1>3 DEF Repair
    <2> QED
      BY <1>1, <1>3, <2>1 DEF Whole, LastLine
  <1> QED
    BY <1>2, <1>3

(* Writing the next event, in part or as a whole, keeps the file in order.  *)
LEMMA PutKeepsFile ==
  ASSUME JournalTypeOK, FileOK, ended = TRUE, NEW n \in Nat \ {0}, Follows(n),
         NEW e \in {n, Torn}, Put(e), e = Torn => ended' = FALSE
  PROVE  /\ lines' \in Seq(Nat)
         /\ FileOK'
         /\ Follows(n)'
         /\ e = n => Follows(n + 1)'
         /\ \A j \in 1..Len(lines) : lines[j] # Torn /\ j \in 1..Len(lines') /\ lines'[j] = lines[j]
         /\ e = n => Len(lines') \in 1..Len(lines') /\ lines'[Len(lines')] = n
  <1>1. /\ Len(lines) \in Nat
        /\ \A j \in 1..Len(lines) : lines[j] \in Nat /\ lines[j] # Torn
        /\ \A j, k \in 1..Len(lines) : j <= k => lines[j] <= lines[k]
    BY ElementOfSeq DEF JournalTypeOK, FileOK, Whole, Monotone
  <1>2. e \in Nat /\ n \in Nat /\ n # 0 /\ (e = n \/ e = 0)
    BY DEF Torn
  <1>2a. e # n => ended' = FALSE
    OBVIOUS
  <1>3. /\ Len(lines') = Len(lines) + 1
        /\ \A j \in 1..Len(lines) : lines'[j] = lines[j]
        /\ lines'[Len(lines) + 1] = e
    BY <1>2, PutFacts
  <1>4. lines' \in Seq(Nat) /\ lines' # <<>>
    BY <1>1, <1>2, <1>3, PutFacts, EmptySeq
  <1>5. /\ Len(lines) = 0 => n = 1
        /\ Len(lines) > 0 => lines[Len(lines)] \in {n - 1, n}
    BY <1>1 DEF Follows, LastAt
  <1>6. Whole'
    BY <1>1, <1>2, <1>3, <1>4 DEF Whole, Torn
  <1>7. Monotone'
    <2> SUFFICES ASSUME NEW j \in 1..Len(lines'), NEW k \in 1..Len(lines'), j <= k, lines'[k] # Torn
                 PROVE  lines'[j] <= lines'[k]
      BY DEF Monotone
    <2>1. CASE k \in 1..Len(lines)
      <3>1. j \in 1..Len(lines)
        BY <1>1, <1>3, <2>1
      <3> QED
        BY <1>1, <1>3, <2>1, <3>1
    <2>2. CASE k = Len(lines) + 1 /\ j = k
      BY <1>2, <1>3, <2>2
    <2>3. CASE k = Len(lines) + 1 /\ j # k
      <3>1. j \in 1..Len(lines) /\ Len(lines) \in 1..Len(lines)
        BY <1>1, <1>3, <2>3
      <3>2. lines[j] <= lines[Len(lines)]
        BY <1>1, <2>3, <3>1
      <3>3. e = n
        BY <1>2, <1>3, <2>3 DEF Torn
      <3> QED
        BY <1>1, <1>3, <1>5, <2>3, <3>1, <3>2, <3>3
    <2> QED
      BY <1>1, <1>3, <2>1, <2>2, <2>3
  <1>8. \A j \in 1..Len(lines) :
          IF j = 1 THEN lines[j] = 1 ELSE lines[j] - lines[j - 1] \in {0, 1}
    BY <1>1 DEF FileOK, NumbersHaveNoGap, Reads
  <1>9. NumbersHaveNoGap'
    <2> SUFFICES ASSUME NEW j \in 1..Len(lines'), Reads(j)'
                 PROVE  IF j = 1 THEN lines'[j] = 1 ELSE lines'[j] - lines'[j - 1] \in {0, 1}
      BY DEF NumbersHaveNoGap
    <2>1. CASE j \in 1..Len(lines)
      BY <1>1, <1>3, <1>8, <2>1
    <2>2. CASE j = Len(lines) + 1
      <3>1. e = n
        BY <1>1, <1>2, <1>3, <2>2 DEF Reads, Torn
      <3> QED
        BY <1>1, <1>3, <1>5, <2>2, <3>1
    <2> QED
      BY <1>1, <1>3, <2>1, <2>2
  <1>10. ASSUME NEW j \in 1..Len(lines'), LastAt(j)'
         PROVE  lines'[j] \in {n - 1, n} /\ (e = n => lines'[j] = n)
    <2>1. CASE e = n
      <3>1. j = Len(lines) + 1
        BY <1>1, <1>2, <1>3, <1>10, <2>1 DEF LastAt, Torn
      <3> QED
        BY <1>3, <2>1, <3>1
    <2>2. CASE e = 0 /\ e # n
      <3>1. j = Len(lines)
        BY <1>1, <1>3, <1>10, <2>2 DEF LastAt, Torn
      <3> QED
        BY <1>1, <1>3, <1>5, <2>2, <3>1
    <2> QED
      BY <1>2, <2>1, <2>2
  <1>11. (\A j \in 1..Len(lines') : lines'[j] = Torn) => n = 1 /\ e # n
    <2> SUFFICES ASSUME \A j \in 1..Len(lines') : lines'[j] = Torn
                 PROVE  n = 1 /\ e # n
      OBVIOUS
    <2>1. Len(lines) + 1 \in 1..Len(lines') /\ Len(lines) = 0
      BY <1>1, <1>3
    <2> QED
      BY <1>2, <1>3, <1>5, <2>1 DEF Torn
  <1>12. Follows(n)'
    BY <1>2, <1>10, <1>11 DEF Follows
  <1>13. e = n => Follows(n + 1)'
    BY <1>2, <1>10, <1>11 DEF Follows
  <1> QED
    BY <1>1, <1>3, <1>4, <1>6, <1>7, <1>9, <1>12, <1>13 DEF FileOK

(* The repair keeps the file in order, and the number that follows it.      *)
LEMMA RepairKeepsFile ==
  ASSUME JournalTypeOK, FileOK, Repair
  PROVE  /\ lines' \in Seq(Nat)
         /\ ended' = TRUE
         /\ FileOK'
         /\ \A n \in Nat : Follows(n) => Follows(n)'
         /\ \A j \in 1..Len(lines) : lines[j] # Torn => j \in 1..Len(lines') /\ lines'[j] = lines[j]
  <1>1. /\ Whole
        /\ \A j, k \in 1..Len(lines) : j <= k /\ lines[k] # Torn => lines[j] <= lines[k]
    BY DEF FileOK, Monotone
  <1>2. /\ ended' = TRUE
        /\ Len(lines') <= Len(lines)
        /\ \A j \in 1..Len(lines') : lines'[j] = lines[j] /\ lines[j] # Torn
        /\ \A j \in 1..Len(lines) : lines[j] # Torn => j \in 1..Len(lines')
    BY <1>1, RepairFacts
  <1>3. lines' \in Seq(Nat)
    BY <1>1, RepairFacts
  <1>4. Len(lines) \in Nat /\ Len(lines') \in Nat
    BY <1>3 DEF JournalTypeOK
  <1>5. \A j \in 1..Len(lines') : j \in 1..Len(lines)
    BY <1>2, <1>4
  <1>6. Whole'
    BY <1>2, <1>4 DEF Whole
  <1>7. Monotone'
    BY <1>1, <1>2, <1>5 DEF Monotone
  <1>8. NumbersHaveNoGap'
    <2> SUFFICES ASSUME NEW j \in 1..Len(lines')
                 PROVE  IF j = 1 THEN lines'[j] = 1 ELSE lines'[j] - lines'[j - 1] \in {0, 1}
      BY DEF NumbersHaveNoGap
    <2>1. Reads(j)
      BY <1>2, <1>4 DEF Reads
    <2>2. IF j = 1 THEN lines[j] = 1 ELSE lines[j] - lines[j - 1] \in {0, 1}
      BY <1>5, <2>1 DEF FileOK, NumbersHaveNoGap
    <2>3. j # 1 => j - 1 \in 1..Len(lines')
      BY <1>4
    <2> QED
      BY <1>2, <2>2, <2>3
  <1>9. ASSUME NEW n \in Nat, Follows(n) PROVE Follows(n)'
    <2>1. ASSUME NEW j \in 1..Len(lines'), LastAt(j)' PROVE lines'[j] \in {n - 1, n}
      <3>1. j = Len(lines')
        BY <1>2, <1>4, <2>1 DEF LastAt, Torn
      <3>2. LastAt(j)
        BY <1>2, <1>4, <1>5, <3>1 DEF LastAt
      <3> QED
        BY <1>2, <1>5, <1>9, <3>2 DEF Follows
    <2>2. (\A j \in 1..Len(lines') : lines'[j] = Torn) => n = 1
      BY <1>2, <1>9 DEF Follows
    <2> QED
      BY <1>9, <2>1, <2>2 DEF Follows
  <1> QED
    BY <1>2, <1>3, <1>6, <1>7, <1>8, <1>9 DEF FileOK

(* Events that returned stay readable as long as no whole line goes.        *)
LEMMA LinesKept ==
  ASSUME JournalTypeOK, Whole, EventsSurvive, JournalTypeOK', Whole', UNCHANGED acked,
         \A j \in 1..Len(lines) : lines[j] # Torn => j \in 1..Len(lines') /\ lines'[j] = lines[j]
  PROVE  EventsSurvive'
  <1> SUFFICES ASSUME NEW i \in 1..Len(acked)
               PROVE  \E j \in 1..Len(lines') : lines'[j] = acked[i] /\ Reads(j)'
    BY DEF EventsSurvive
  <1>1. PICK j \in 1..Len(lines) : lines[j] = acked[i] /\ Reads(j)
    BY DEF EventsSurvive
  <1>2. lines[j] # Torn
    BY <1>1, ReadsWhole
  <1>3. j \in 1..Len(lines') /\ lines'[j] = acked[i] /\ lines'[j] # Torn
    BY <1>1, <1>2 DEF Torn
  <1>4. Reads(j)'
    <2> SUFFICES ASSUME NEW k \in 1..j PROVE lines'[k] # Torn
      BY DEF Reads, Torn
    <2>1. Len(lines') \in Nat
      BY DEF JournalTypeOK
    <2>2. k \in 1..Len(lines') /\ (k = Len(lines') => k = j)
      BY <1>3, <2>1
    <2>3. lines'[k] = Torn => k = Len(lines')
      BY <2>2 DEF Whole, Torn
    <2> QED
      BY <1>3, <2>2, <2>3
  <1> QED
    BY <1>3, <1>4

(* A partial write: nothing, a torn line, or the event.                     *)
LEMMA PutInPartKeepsFile ==
  ASSUME JournalTypeOK, FileOK, ended = TRUE, NEW n \in Nat \ {0}, Follows(n), PutInPart(n)
  PROVE  /\ lines' \in Seq(Nat)
         /\ ended' \in BOOLEAN
         /\ FileOK'
         /\ Follows(n)'
         /\ \A j \in 1..Len(lines) : lines[j] # Torn => j \in 1..Len(lines') /\ lines'[j] = lines[j]
  <1>1. CASE UNCHANGED <<lines, ended>>
    BY <1>1 DEF JournalTypeOK, FileOK, Whole, Monotone, NumbersHaveNoGap, Reads, Follows, LastAt
  <1>2. CASE Put(Torn) /\ ended' = FALSE
    BY <1>2, PutKeepsFile
  <1>3. CASE Put(n) /\ ended' \in BOOLEAN
    <2>1. n # Torn
      BY DEF Torn
    <2> QED
      BY <1>3, <2>1, PutKeepsFile
  <1> QED
    BY <1>1, <1>2, <1>3 DEF PutInPart
-----------------------------------------------------------------------------
(* One process at most has anything to do with the file.                    *)
LEMMA OneWriter ==
  ASSUME LockInv, Apart, NEW p \in Procs, NEW q \in Procs, p # q, pc[p] = "inside"
  PROVE  step[q] = "none" /\ cached[q] = 0
  BY DEF LockInv, GuardHeld, Under, Apart

(* A process with no append under way and no cache fits any file.           *)
LEMMA IdleFits ==
  ASSUME NEW p \in Procs, (step[p] = "none" /\ cached[p] = 0)'
  PROVE  Fits(p)'
  BY DEF Fits

(* The journal is initially empty, and nobody writes.                       *)
LEMMA JournalStart == JournalInit => JournalInv
  <1> SUFFICES ASSUME JournalInit PROVE JournalInv
    OBVIOUS
  <1>1. LockInv
    BY LockInit DEF JournalInit
  <1>2. Len(lines) = 0 /\ Len(acked) = 0 /\ lines \in Seq(Nat) /\ acked \in Seq(Nat \ {0})
    BY EmptySeq DEF JournalInit
  <1>3. left \in Nat
    BY JournalAssumption DEF JournalInit, Init
  <1>4. JournalTypeOK
    BY <1>2, <1>3 DEF JournalInit, JournalTypeOK
  <1>5. Apart /\ Ready /\ \A p \in Procs : Fits(p)
    BY DEF JournalInit, Apart, Ready, Fits
  <1>6. FileOK /\ EventsSurvive /\ NumbersAscend
    BY <1>2 DEF JournalInit, FileOK, Whole, Monotone, NumbersHaveNoGap, EventsSurvive,
       NumbersAscend
  <1> QED
    BY <1>1, <1>4, <1>5, <1>6 DEF JournalInv

(* A step of the lock, with the processes that it lets go.                  *)
LEMMA LockStepKeeps == JournalInv /\ LockStep => JournalInv'
  <1> SUFFICES ASSUME JournalInv, LockStep PROVE JournalInv'
    OBVIOUS
  <1> USE DEF JournalInv
  <1>1. LockInv'
    BY LockTypeStep, LockGuardStep, LockFileStep DEF LockStep, LockInv
  <1>2. \A p \in Procs : /\ step'[p] = IF pc'[p] = "inside" THEN step[p] ELSE "none"
                         /\ num'[p] = IF pc'[p] = "inside" THEN num[p] ELSE 0
                         /\ cached'[p] = IF pc'[p] = "inside" THEN cached[p] ELSE 0
    BY DEF LockStep, Forgotten, CacheLeft
  <1>3. step' \in [Procs -> {"none", "repaired", "numbered"}]
    BY DEF LockStep, Forgotten, JournalTypeOK
  <1>4. num' \in [Procs -> Nat] /\ cached' \in [Procs -> Nat]
    BY DEF LockStep, Forgotten, CacheLeft, JournalTypeOK
  <1>5. acked' = acked /\ left' = left
    BY DEF LockStep
  <1>6. Apart'
    BY <1>2 DEF Apart
  <1>7. CASE UNCHANGED <<lines, ended>>
    <2>1. JournalTypeOK'
      BY <1>3, <1>4, <1>5, <1>7 DEF JournalTypeOK
    <2>2. Ready'
      BY <1>2, <1>7 DEF Ready
    <2>3. FileOK' /\ EventsSurvive' /\ NumbersAscend'
      BY <1>5, <1>7 DEF FileOK, Whole, Monotone, NumbersHaveNoGap, EventsSurvive, NumbersAscend,
         Reads
    <2>4. ASSUME NEW p \in Procs PROVE Fits(p)'
      BY <1>2, <1>5, <1>7 DEF Fits, Follows, LastAt
    <2> QED
      BY <1>1, <1>6, <2>1, <2>2, <2>3, <2>4
  <1>8. ASSUME NEW p \in Procs, DiesWriting(p), PutInPart(num[p]) PROVE JournalInv'
    <2>1. pc[p] = "inside" /\ ended = TRUE /\ pc'[p] = "dead"
      BY <1>8 DEF DiesWriting, Apart, Ready
    <2>2. num[p] \in Nat \ {0} /\ Follows(num[p])
      BY <1>8 DEF DiesWriting, Fits, Follows, JournalTypeOK
    <2>3. /\ lines' \in Seq(Nat)
          /\ ended' \in BOOLEAN
          /\ FileOK'
          /\ \A j \in 1..Len(lines) : lines[j] # Torn => j \in 1..Len(lines') /\ lines'[j] = lines[j]
      BY <1>8, <2>1, <2>2, PutInPartKeepsFile
    <2>4. \A q \in Procs : step'[q] = "none" /\ cached'[q] = 0
      BY <1>2, <2>1, OneWriter
    <2>5. JournalTypeOK'
      BY <1>3, <1>4, <1>5, <2>3 DEF JournalTypeOK
    <2>6. Ready' /\ \A q \in Procs : Fits(q)'
      BY <2>4 DEF Ready, Fits
    <2>7. EventsSurvive'
      BY <1>5, <2>3, <2>5, LinesKept DEF FileOK
    <2>8. NumbersAscend'
      BY <1>5 DEF NumbersAscend
    <2> QED
      BY <1>1, <1>6, <2>3, <2>5, <2>6, <2>7, <2>8
  <1> QED
    BY <1>7, <1>8 DEF LockStep
(* The steps of an append leave the lock alone; only p is inside.           *)
LEMMA StartAppendKeeps ==
  ASSUME JournalInv, NEW p \in Procs, StartAppend(p)
  PROVE  JournalInv'
  <1> USE DEF JournalInv
  <1>1. /\ lines' \in Seq(Nat)
        /\ ended' = TRUE
        /\ FileOK'
        /\ \A n \in Nat : Follows(n) => Follows(n)'
        /\ \A j \in 1..Len(lines) : lines[j] # Torn => j \in 1..Len(lines') /\ lines'[j] = lines[j]
    BY RepairKeepsFile DEF StartAppend
  <1>2. LockInv'
    BY LockTypeStep, LockGuardStep, LockFileStep DEF StartAppend, LockInv
  <1>3. JournalTypeOK'
    BY <1>1 DEF StartAppend, JournalTypeOK
  <1>4. Apart' /\ Ready'
    BY <1>1 DEF StartAppend, JournalTypeOK, Apart, Ready, vars
  <1>5. EventsSurvive'
    BY <1>1, <1>3, LinesKept DEF StartAppend, FileOK
  <1>6. NumbersAscend'
    BY DEF StartAppend, NumbersAscend
  <1>7. ASSUME NEW q \in Procs PROVE Fits(q)'
    <2>1. CASE q # p
      <3>1. step'[q] = "none" /\ cached'[q] = 0
        BY <2>1, OneWriter DEF StartAppend, JournalTypeOK
      <3> QED
        BY <3>1, IdleFits
    <2>2. CASE q = p
      <3>1. step'[p] = "repaired" /\ cached' = cached /\ acked' = acked
        BY DEF StartAppend, JournalTypeOK
      <3>2. PICK c \in Nat : c = cached[p] + 1
        BY DEF JournalTypeOK
      <3>3. cached[p] # 0 => Follows(c)' /\ \A i \in 1..Len(acked) : acked[i] <= cached[p]
        BY <1>1, <3>2 DEF Fits
      <3>4. (cached[p] # 0 => Follows(cached[p] + 1))'
        BY <3>1, <3>2, <3>3
      <3> QED
        BY <2>2, <3>1, <3>3, <3>4 DEF Fits
    <2> QED
      BY <2>1, <2>2
  <1> QED
    BY <1>2, <1>3, <1>1, <1>4, <1>5, <1>6, <1>7

(* The number an append takes follows the file, and is above all that were  *)
(* returned before.                                                         *)
LEMMA NumberFollows ==
  ASSUME JournalInv, NEW p \in Procs, step[p] = "repaired"
  PROVE  /\ NextSequence(p) \in Nat \ {0}
         /\ Follows(NextSequence(p))
         /\ \A i \in 1..Len(acked) : acked[i] < NextSequence(p)
         /\ cached[p] # 0 => NextSequence(p) = cached[p] + 1
  <1> USE DEF JournalInv
  <1>1. /\ Len(lines) \in Nat /\ cached[p] \in Nat
        /\ \A j \in 1..Len(lines) : lines[j] \in Nat
        /\ \A i \in 1..Len(acked) : acked[i] \in Nat
    BY ElementOfSeq DEF JournalTypeOK
  <1>2. \A j \in 1..Len(lines) : lines[j] # Torn /\ Reads(j)
    BY ReadsWhole DEF Ready, FileOK, Whole
  <1>3. CASE cached[p] # 0
    <2>1. NextSequence(p) = cached[p] + 1
      BY <1>3 DEF NextSequence
    <2>2. Follows(cached[p] + 1) /\ \A i \in 1..Len(acked) : acked[i] <= cached[p]
      BY <1>3 DEF Fits
    <2>3. Follows(NextSequence(p))
      BY <2>1, <2>2
    <2> QED
      BY <1>1, <2>1, <2>2, <2>3
  <1>4. CASE cached[p] = 0 /\ Len(lines) = 0
    <2>1. NextSequence(p) = 1
      BY <1>4 DEF NextSequence, LastNumber
    <2>2. Follows(1)
      BY <1>4 DEF Follows
    <2>3. \A i \in 1..Len(acked) : FALSE
      BY <1>4 DEF EventsSurvive
    <2>4. Follows(NextSequence(p))
      BY <2>1, <2>2
    <2> QED
      BY <1>4, <2>1, <2>3, <2>4
  <1>5. CASE cached[p] = 0 /\ Len(lines) > 0
    <2> DEFINE last == Len(lines)
               n == lines[last] + 1
    <2>1. last \in 1..Len(lines)
      BY <1>1, <1>5
    <2>2. \A j \in 1..Len(lines) : (Reads(j) /\ (j < Len(lines) => lines[j + 1] = Torn)) <=> j = last
      BY <1>1, <1>2, <1>5
    <2>3. (CHOOSE j \in 1..Len(lines) : Reads(j) /\ (j < Len(lines) => lines[j + 1] = Torn)) = last
      BY <2>1, <2>2
    <2>4. LastNumber = lines[last]
      BY <1>2, <2>1, <2>3 DEF LastNumber
    <2>5. NextSequence(p) = n
      BY <1>5, <2>4 DEF NextSequence
    <2>6. Follows(n)
      BY <1>1, <1>2, <2>1 DEF Follows, LastAt
    <2>7. ASSUME NEW i \in 1..Len(acked) PROVE acked[i] < n
      <3>1. PICK j \in 1..Len(lines) : lines[j] = acked[i]
        BY DEF EventsSurvive
      <3>2. lines[j] <= lines[last]
        BY <1>1, <1>2, <2>1 DEF FileOK, Monotone
      <3> QED
        BY <1>1, <2>1, <3>1, <3>2
    <2>8. n \in Nat \ {0}
      BY <1>1, <2>1
    <2> HIDE DEF n, last
    <2>9. Follows(NextSequence(p))
      BY <2>5, <2>6
    <2> QED
      BY <1>5, <2>5, <2>7, <2>8, <2>9
  <1> QED
    BY <1>1, <1>3, <1>4, <1>5

(* Taking the number changes nothing else. *)
LEMMA TakeNumberKeeps ==
  ASSUME JournalInv, NEW p \in Procs, TakeNumber(p)
  PROVE  JournalInv'
  <1> USE DEF JournalInv
  <1>1. PICK n \in Nat \ {0} :
          /\ n = NextSequence(p)
          /\ Follows(n)
          /\ \A i \in 1..Len(acked) : acked[i] < n
          /\ cached[p] # 0 => n = cached[p] + 1
    BY NumberFollows DEF TakeNumber
  <1>2. /\ step' = [step EXCEPT ![p] = "numbered"] /\ num' = [num EXCEPT ![p] = n]
        /\ step[p] = "repaired"
        /\ UNCHANGED <<vars, lines, ended, cached, acked, left>>
    BY <1>1 DEF TakeNumber
  <1>3. LockInv'
    BY <1>2, LockTypeStep, LockGuardStep, LockFileStep DEF LockInv
  <1>4. JournalTypeOK'
    BY <1>1, <1>2 DEF JournalTypeOK
  <1>5. Apart' /\ Ready'
    BY <1>2 DEF JournalTypeOK, Apart, Ready, vars
  <1>6. FileOK' /\ EventsSurvive' /\ NumbersAscend'
    BY <1>2 DEF FileOK, Whole, Monotone, NumbersHaveNoGap, EventsSurvive, NumbersAscend, Reads
  <1>7. ASSUME NEW q \in Procs PROVE Fits(q)'
    <2>1. CASE q # p
      <3>1. step'[q] = step[q] /\ num'[q] = num[q]
        BY <1>2, <2>1 DEF JournalTypeOK
      <3> QED
        BY <1>2, <3>1 DEF Fits, Follows, LastAt
    <2>2. CASE q = p
      <3>1. num'[p] = n
        BY <1>2 DEF JournalTypeOK
      <3>2. Follows(n)'
        BY <1>1, <1>2 DEF Follows, LastAt
      <3>3. Follows(num[p])'
        BY <3>1, <3>2
      <3>4. (cached[p] # 0 => Follows(cached[p] + 1)
                              /\ \A i \in 1..Len(acked) : acked[i] <= cached[p])'
        BY <1>2 DEF Fits, Follows, LastAt
      <3> QED
        BY <1>1, <1>2, <2>2, <3>1, <3>3, <3>4 DEF Fits
    <2> QED
      BY <2>1, <2>2
  <1> QED
    BY <1>3, <1>4, <1>5, <1>6, <1>7
(* A whole line: its number is above every one that was returned.           *)
LEMMA AppendLineKeeps ==
  ASSUME JournalInv, NEW p \in Procs, AppendLine(p)
  PROVE  JournalInv'
  <1> USE DEF JournalInv
  <1>1. PICK n \in Nat \ {0} :
          /\ n = num[p]
          /\ Follows(n)
          /\ \A i \in 1..Len(acked) : acked[i] < n
    BY DEF AppendLine, Fits, Follows, JournalTypeOK
  <1>2. pc[p] = "inside" /\ ended = TRUE
    BY DEF AppendLine, Apart, Ready
  <1>3. Put(n) /\ ended' = TRUE
    BY <1>1 DEF AppendLine
  <1>4. n # Torn
    BY <1>1 DEF Torn
  <1>5. /\ lines' \in Seq(Nat)
        /\ FileOK'
        /\ Follows(n + 1)'
        /\ \A j \in 1..Len(lines) : lines[j] # Torn /\ j \in 1..Len(lines') /\ lines'[j] = lines[j]
        /\ Len(lines') \in 1..Len(lines') /\ lines'[Len(lines')] = n
    BY <1>1, <1>2, <1>3, <1>4, PutKeepsFile
  <1>6. /\ acked' \in Seq(Nat \ {0})
        /\ Len(acked') = Len(acked) + 1
        /\ \A i \in 1..Len(acked) : acked'[i] = acked[i]
        /\ acked'[Len(acked) + 1] = n
    BY <1>1, AppendProperties DEF AppendLine, JournalTypeOK
  <1>7. Len(acked) \in Nat /\ \A i \in 1..Len(acked) : acked[i] \in Nat
    BY ElementOfSeq DEF JournalTypeOK
  <1>8. LockInv'
    BY LockTypeStep, LockGuardStep, LockFileStep DEF AppendLine, LockInv
  <1>9. JournalTypeOK'
    BY <1>1, <1>3, <1>5, <1>6 DEF AppendLine, JournalTypeOK
  <1>10. Apart' /\ Ready'
    BY <1>2, <1>3 DEF AppendLine, JournalTypeOK, Apart, Ready, vars
  <1>11. \A j \in 1..Len(lines') : Reads(j)'
    <2>1. \A j \in 1..Len(lines') : lines'[j] # Torn
      BY <1>3, <1>5 DEF FileOK, Whole, Torn
    <2> QED
      BY <1>5, <2>1 DEF Reads, Torn
  <1>12. EventsSurvive'
    <2> SUFFICES ASSUME NEW i \in 1..Len(acked')
                 PROVE  \E j \in 1..Len(lines') : lines'[j] = acked'[i] /\ Reads(j)'
      BY DEF EventsSurvive
    <2>1. CASE i \in 1..Len(acked)
      <3>1. PICK j \in 1..Len(lines) : lines[j] = acked[i]
        BY <2>1 DEF EventsSurvive
      <3> QED
        BY <1>5, <1>6, <1>11, <2>1, <3>1
    <2>2. CASE i = Len(acked) + 1
      BY <1>5, <1>6, <1>11, <2>2
    <2> QED
      BY <1>6, <1>7, <2>1, <2>2
  <1>13. NumbersAscend'
    <2> SUFFICES ASSUME NEW i \in 1..Len(acked'), NEW j \in 1..Len(acked'), i < j
                 PROVE  acked'[i] < acked'[j]
      BY DEF NumbersAscend
    <2>1. i \in 1..Len(acked)
      BY <1>6, <1>7
    <2>2. CASE j \in 1..Len(acked)
      BY <1>6, <2>1, <2>2 DEF NumbersAscend
    <2>3. CASE j = Len(acked) + 1
      BY <1>1, <1>6, <2>1, <2>3
    <2> QED
      BY <1>6, <1>7, <2>2, <2>3
  <1>14. \A i \in 1..Len(acked') : acked'[i] <= n
    BY <1>1, <1>6, <1>7
  <1>15. ASSUME NEW q \in Procs PROVE Fits(q)'
    <2>1. CASE q # p
      <3>1. step'[q] = "none" /\ cached'[q] = 0
        BY <1>2, <2>1, OneWriter DEF AppendLine, JournalTypeOK
      <3> QED
        BY <3>1, IdleFits
    <2>2. CASE q = p
      <3>1. step'[p] = "none" /\ cached'[p] = n
        BY <1>1 DEF AppendLine, JournalTypeOK
      <3>2. Follows(cached[p] + 1)'
        BY <1>5, <3>1
      <3> QED
        BY <1>14, <2>2, <3>1, <3>2 DEF Fits
    <2> QED
      BY <2>1, <2>2
  <1> QED
    BY <1>5, <1>8, <1>9, <1>10, <1>12, <1>13, <1>15

(* A write that failed, whatever of it reached the file.                    *)
LEMMA AppendFailsKeeps ==
  ASSUME JournalInv, NEW p \in Procs, AppendFails(p)
  PROVE  JournalInv'
  <1> USE DEF JournalInv
  <1>1. PICK n \in Nat \ {0} :
          /\ n = num[p]
          /\ Follows(n)
          /\ cached[p] # 0 => n = cached[p] + 1
    BY DEF AppendFails, Fits, Follows, JournalTypeOK
  <1>2. pc[p] = "inside" /\ ended = TRUE
    BY DEF AppendFails, Apart, Ready
  <1>3. /\ lines' \in Seq(Nat)
        /\ ended' \in BOOLEAN
        /\ FileOK'
        /\ Follows(n)'
        /\ \A j \in 1..Len(lines) : lines[j] # Torn => j \in 1..Len(lines') /\ lines'[j] = lines[j]
    BY <1>1, <1>2, PutInPartKeepsFile DEF AppendFails
  <1>4. LockInv'
    BY LockTypeStep, LockGuardStep, LockFileStep DEF AppendFails, LockInv
  <1>5. JournalTypeOK'
    BY <1>3 DEF AppendFails, JournalTypeOK
  <1>6. \A q \in Procs : step'[q] = "none"
    <2>1. \A q \in Procs : q # p => step[q] = "none"
      BY <1>2, OneWriter
    <2> QED
      BY <2>1 DEF AppendFails, JournalTypeOK
  <1>7. Apart' /\ Ready'
    BY <1>2, <1>6 DEF AppendFails, Apart, Ready, vars
  <1>8. EventsSurvive' /\ NumbersAscend'
    BY <1>3, <1>5, LinesKept DEF AppendFails, FileOK, NumbersAscend
  <1>9. ASSUME NEW q \in Procs PROVE Fits(q)'
    <2>1. CASE q # p
      BY <1>2, <1>6, <2>1, OneWriter, IdleFits DEF AppendFails
    <2>2. CASE q = p
      <3>1. cached' = cached /\ acked' = acked /\ step'[p] = "none"
        BY <1>6 DEF AppendFails
      <3>2. (cached[p] # 0 => Follows(cached[p] + 1))'
        BY <1>1, <1>3, <3>1
      <3>3. cached[p] # 0 => \A i \in 1..Len(acked) : acked[i] <= cached[p]
        BY DEF Fits
      <3> QED
        BY <2>2, <3>1, <3>2, <3>3 DEF Fits
    <2> QED
      BY <2>1, <2>2
  <1> QED
    BY <1>3, <1>4, <1>5, <1>7, <1>8, <1>9

-----------------------------------------------------------------------------
(* Every reachable state has the invariant. *)
THEOREM JournalInvariant == JournalSpec => []JournalInv
  <1>1. JournalInv /\ [JournalNext]_allVars => JournalInv'
    <2> SUFFICES ASSUME JournalInv, [JournalNext]_allVars PROVE JournalInv'
      OBVIOUS
    <2>1. CASE LockStep
      BY <2>1, LockStepKeeps
    <2>2. ASSUME NEW p \in Procs, Writes(p) PROVE JournalInv'
      BY <2>2, StartAppendKeeps, TakeNumberKeeps, AppendLineKeeps DEF Writes
    <2>3. ASSUME NEW p \in Procs, AppendFails(p) PROVE JournalInv'
      BY <2>3, AppendFailsKeeps
    <2>4. CASE UNCHANGED allVars
      <3>1. LockInv'
        BY <2>4, LockTypeStep, LockGuardStep, LockFileStep DEF JournalInv, LockInv, allVars
      <3>2. UNCHANGED <<pc, lines, ended, step, num, cached, acked, left>>
        BY <2>4 DEF allVars, journalVars, vars
      <3> QED
        BY <3>1, <3>2 DEF JournalInv, JournalTypeOK, Apart, Ready, FileOK, Whole, Monotone,
           NumbersHaveNoGap, EventsSurvive, NumbersAscend, Reads, Fits, Follows, LastAt
    <2> QED
      BY <2>1, <2>2, <2>3, <2>4 DEF JournalNext
  <1> QED
    BY JournalStart, <1>1, PTL DEF JournalSpec

(* With a journal to write the lock is still the lock: every theorem of     *)
(* ScanLockProofs is about the processes that write, too.                   *)
THEOREM JournalKeepsTheLock == JournalSpec => Spec
  <1>1. JournalInit => Init
    BY DEF JournalInit
  <1>2. [JournalNext]_allVars => [Next]_vars
    BY DEF JournalNext, LockStep, Writes, StartAppend, TakeNumber, AppendLine, AppendFails,
       allVars, vars
  <1> QED
    BY <1>1, <1>2, PTL DEF JournalSpec, Spec

(* The file, the cache and the numbers keep their types.                    *)
THEOREM JournalTyped == JournalSpec => []JournalTypeOK
  BY JournalInvariant, PTL DEF JournalInv

(* An event whose append returned is read ever after, for any number of     *)
(* processes that die or fail in the middle of a write.                     *)
THEOREM EventsAreKept == JournalSpec => []EventsSurvive
  BY JournalInvariant, PTL DEF JournalInv

(* Numbers that were returned ascend across processes: the cache of one is  *)
(* never used after another has written.                                    *)
THEOREM NumbersAreAscending == JournalSpec => []NumbersAscend
  BY JournalInvariant, PTL DEF JournalInv

(* The numbers in the file have no gap.                                     *)
THEOREM NumbersAreContiguous == JournalSpec => []NumbersHaveNoGap
  BY JournalInvariant, PTL DEF JournalInv, FileOK
=============================================================================
