---------------------------- MODULE StoreProofs ----------------------------
(***************************************************************************)
(* Theorems about Store, Sleep and the clients, for every number of        *)
(* processes, keys, versions, receipts and lengths of a token: one chain   *)
(* of one issuer, rows that stay, and clients that agree with the host.    *)
(***************************************************************************)
EXTENDS Sleep, Wire, RecordLemmas, CanonicalProofs

-----------------------------------------------------------------------------
(* The inductive invariant.                                                *)

\* Domains, and the pins.
StoreType ==
  /\ DOMAIN step = Process
  /\ DOMAIN key = Process
  /\ DOMAIN build = Process
  /\ DOMAIN len = Process
  /\ DOMAIN leaf = Process
  /\ DOMAIN meta = Pin
  /\ \A p \in Process : step[p] \in Step
  /\ meta["issuer"] \in Key \cup {None}
  /\ meta["version"] \in Version \cup {None}
  /\ edits \in Nat

\* What a process has settled at its step.
SessionInv ==
  \A p \in Process :
    /\ step[p] # "down" => key[p] \in Key /\ build[p] \in Version
    /\ step[p] \in {"issuer", "count", "head", "resume", "serve"} => meta["version"] = build[p]
    /\ step[p] \in {"count", "head", "resume", "serve"} => meta["issuer"] = key[p]
    /\ step[p] \notin Opened => leaf[p] = ZeroDigest

\* The last of n leaves.
LeafAt(n) == IF n = 0 THEN ZeroDigest ELSE rows[n - 1].blob.body.leaf

RowSound(i) ==
  LET r == rows[i].blob IN
    /\ r # None
    /\ r.body.seq = i
    /\ r.body.prev = LeafAt(i)
    /\ r.version = meta["version"]
    /\ Verifies(r, meta["version"])
    /\ r.issuer = meta["issuer"]

\* A chain of n rows.  A process may have fallen behind, but one that counts all n
\* rows knows the last leaf: this is why a stale cache cannot spoil the chain.
Extent(n) ==
  /\ Positions = 0 .. n - 1
  /\ \A i \in 0 .. n - 1 : RowSound(i)
  /\ n > 0 => meta["issuer"] # None /\ meta["version"] # None
  /\ \A p \in Process :
       /\ step[p] \in {"head", "resume", "serve"} => len[p] \in 0 .. n
       /\ step[p] \in Opened /\ len[p] = n => leaf[p] = LeafAt(n)

ChainInv == edits = 0 => \E n \in Nat : Extent(n)

StoreInv == StoreType /\ SessionInv /\ ChainInv

-----------------------------------------------------------------------------
(* What the steps do.                                                      *)

\* Nothing the invariant speaks of changes.
Quiet == UNCHANGED <<meta, rows, step, key, build, len, leaf, edits>>

\* p moves on by itself: of the database nothing changes.
StartStep(p) ==
  /\ step[p] = "down"
  /\ \E k \in Key, v \in Version :
       key' = [key EXCEPT ![p] = k] /\ build' = [build EXCEPT ![p] = v]
  /\ step' = [step EXCEPT ![p] = "peek"]
  /\ UNCHANGED <<meta, rows, len, leaf, edits>>

PeekStep(p) ==
  /\ step[p] = "peek"
  /\ \E k \in {key[p], meta["issuer"]} \ {None} : key' = [key EXCEPT ![p] = k]
  /\ step' = [step EXCEPT ![p] = "version"]
  /\ UNCHANGED <<meta, rows, build, len, leaf, edits>>

StopStep(p) ==
  /\ step' = [step EXCEPT ![p] = "down"]
  /\ key' = [key EXCEPT ![p] = None]
  /\ build' = [build EXCEPT ![p] = None]
  /\ len' = [len EXCEPT ![p] = 0]
  /\ leaf' = [leaf EXCEPT ![p] = ZeroDigest]
  /\ UNCHANGED <<meta, rows, edits>>

PinStep(p) ==
  /\ step[p] \in Pin
  /\ step' = [step EXCEPT ![p] = Following(step[p])]
  /\ \/ meta[step[p]] = Expected(p, step[p]) /\ UNCHANGED meta
     \/ meta[step[p]] = None /\ meta' = [meta EXCEPT ![step[p]] = Expected(p, step[p])]
  /\ UNCHANGED <<rows, key, build, len, leaf, edits>>

CountStep(p) ==
  /\ step[p] = "count"
  /\ len' = [len EXCEPT ![p] = Cardinality(Positions)]
  /\ step' = [step EXCEPT ![p] = IF Positions = {} THEN "resume" ELSE "head"]
  /\ UNCHANGED <<meta, rows, key, build, leaf, edits>>

HeadStep(p) ==
  /\ step[p] = "head"
  /\ LastRow # None
  /\ leaf' = [leaf EXCEPT ![p] = LastRow.body.leaf]
  /\ step' = [step EXCEPT ![p] = "resume"]
  /\ UNCHANGED <<meta, rows, key, build, len, edits>>

ResumeStep(p) ==
  /\ step[p] = "resume"
  /\ step' = [step EXCEPT ![p] = "serve"]
  /\ UNCHANGED <<meta, rows, key, build, len, leaf, edits>>

AppendStep(p) ==
  /\ step[p] = "serve"
  /\ \E r : /\ r # None
            /\ Extends(p, r)
            /\ Insertable(r)
            /\ rows' = [i \in Positions \cup {r.body.seq} |->
                          IF i = r.body.seq THEN Row(r) ELSE rows[i]]
            /\ len' = [len EXCEPT ![p] = @ + 1]
            /\ leaf' = [leaf EXCEPT ![p] = r.body.leaf]
  /\ UNCHANGED <<meta, step, key, build, edits>>

EditStep ==
  /\ edits' = edits + 1
  /\ UNCHANGED <<meta, step, key, build, len, leaf>>

ProcessStep(p) ==
  \/ StartStep(p) \/ PeekStep(p) \/ StopStep(p) \/ PinStep(p) \/ CountStep(p)
  \/ HeadStep(p) \/ ResumeStep(p) \/ AppendStep(p)

\* Opening the log.
LEMMA OpenSteps ==
  ASSUME StoreType, SessionInv, NEW p \in Process, Open(p)
  PROVE  Quiet \/ ProcessStep(p)
<1> USE DEF database, session, cache, history, Move
<1>1. CASE Start(p)
  BY <1>1 DEF Start, StartStep, ProcessStep
<1>2. CASE Peek(p)
  <2>1. key[p] # None
    BY <1>2, StoreAssumption DEF Peek, SessionInv, Signer
  <2> QED
    BY <1>2, <2>1 DEF Peek, PeekStep, ProcessStep
<1>3. CASE PeekRefused(p) \/ PinDiffers(p) \/ InsertPinFails(p) \/ ReadHeadFails(p)
  BY <1>3 DEF PeekRefused, PinDiffers, InsertPinFails, ReadHeadFails, Stop, StopStep, ProcessStep
<1>4. CASE PinAgrees(p) \/ InsertPin(p)
  BY <1>4 DEF PinAgrees, InsertPin, PinStep, ProcessStep
<1>5. CASE PinMissing(p)
  BY <1>5 DEF PinMissing, Quiet
<1>6. CASE Count(p)
  BY <1>6 DEF Count, CountStep, ProcessStep
<1>7. CASE ReadHead(p)
  BY <1>7 DEF ReadHead, HeadStep, ProcessStep
<1>8. CASE Resume(p) \/ ResumeUnread(p)
  BY <1>8 DEF Resume, ResumeUnread, ResumeWith, ResumeStep, ProcessStep
<1> QED
  BY <1>1, <1>2, <1>3, <1>4, <1>5, <1>6, <1>7, <1>8 DEF Open

\* Serving.
LEMMA ServeSteps ==
  ASSUME NEW p \in Process, Serve(p)
  PROVE  Quiet \/ AppendStep(p)
<1> USE DEF database, session, cache, history
<1>1. CASE \E a \in Work : SignAction(p, a)
  BY <1>1 DEF SignAction, Quiet
<1>2. CASE Offer(p) \/ AppendFails(p) \/ InsertFails(p)
  BY <1>2 DEF Offer, AppendFails, InsertFails, Quiet
<1>3. CASE AppendRow(p)
  BY <1>3 DEF AppendRow, AppendStep, Writer
<1> QED
  BY <1>1, <1>2, <1>3 DEF Serve

\* An edit of the file, whatever its kind.
LEMMA EditSteps == EditFile => EditStep
<1> SUFFICES ASSUME EditFile PROVE EditStep
  OBVIOUS
<1>1. \E table : Edit(table)
  BY DEF EditFile, AlterBody, AlterVersion, DeleteRow, Garble, Reissue, SwapBodies, InsertRow
<1> QED
  BY <1>1 DEF Edit, EditStep, session, cache

\* Passes of light and deep sleep touch nothing of the log.
LEMMA SleepSteps ==
  ASSUME NEW p \in Process, Asleep(p)
  PROVE  Quiet
<1> USE DEF database, session, cache, history
<1>1. CASE BeginPass(p) \/ Clean(p) \/ Walk(p)
  BY <1>1 DEF BeginPass, Clean, Walk, vars, Quiet
<1>2. CASE WalkUnread(p)
  BY <1>2 DEF WalkUnread, Quiet
<1>3. CASE ReportPass(p)
  BY <1>3 DEF ReportPass, SignAction, Quiet
<1> QED
  BY <1>1, <1>2, <1>3 DEF Asleep

\* Every step is one of the above.
LEMMA StepsSummarized ==
  ASSUME StoreType, SessionInv, [SNext]_svars
  PROVE  Quiet \/ EditStep \/ \E p \in Process : ProcessStep(p)
<1>1. CASE UNCHANGED svars
  BY <1>1 DEF svars, vars, database, session, cache, history, Quiet
<1>2. ASSUME NEW p \in Process, Awake(p)
      PROVE  Quiet \/ ProcessStep(p)
  BY <1>2, OpenSteps, ServeSteps DEF Awake, ProcessStep
<1>3. ASSUME NEW p \in Process, ExitAsleep(p)
      PROVE  ProcessStep(p)
  BY <1>3 DEF ExitAsleep, Exit, Stop, StopStep, ProcessStep, database, history
<1> QED
  BY <1>1, <1>2, <1>3, SleepSteps, EditSteps DEF SNext

-----------------------------------------------------------------------------
(* Preservation, one kind of step at a time.                               *)

LEMMA QuietSound ==
  ASSUME StoreInv, Quiet
  PROVE  StoreInv'
<1>1. StoreType' /\ SessionInv'
  BY DEF StoreInv, StoreType, SessionInv, Quiet
<1>2. ASSUME NEW n \in Nat, Extent(n)
      PROVE  Extent(n)'
  <2>1. LeafAt(n)' = LeafAt(n)
    BY DEF LeafAt, Quiet
  <2>2. ASSUME NEW i \in 0 .. n - 1
        PROVE  RowSound(i)'
    BY <1>2 DEF Extent, RowSound, LeafAt, Quiet
  <2> QED
    BY <1>2, <2>1, <2>2 DEF Extent, Positions, Quiet
<1> QED
  BY <1>1, <1>2 DEF StoreInv, ChainInv, Quiet

LEMMA InitSound == SInit => StoreInv
<1> SUFFICES ASSUME SInit PROVE StoreInv
  OBVIOUS
<1>1. StoreType /\ SessionInv
  BY DEF SInit, Init, StoreType, SessionInv, Pin, Step, Opened
<1>2. Extent(0)
  BY DEF SInit, Init, Extent, Positions, LeafAt, Opened
<1> QED
  BY <1>1, <1>2 DEF StoreInv, ChainInv

\* Pins and steps stay consistent.
LEMMA SessionsSound ==
  ASSUME StoreInv, NEW p \in Process, ProcessStep(p)
  PROVE  StoreType' /\ SessionInv'
<1> USE DEF StoreInv, StoreType, SessionInv, Pin, Step, Opened
<1>1. CASE StartStep(p)
  BY <1>1 DEF StartStep
<1>2. CASE PeekStep(p)
  BY <1>2 DEF PeekStep
<1>3. CASE StopStep(p)
  BY <1>3 DEF StopStep
<1>4. CASE PinStep(p)
  <2>1. Expected(p, step[p]) # None
    BY <1>4, StoreAssumption DEF PinStep, Expected, Signer
  <2>2. meta'["issuer"] \in Key \cup {None} /\ meta'["version"] \in Version \cup {None}
    BY <1>4 DEF PinStep, Expected
  <2>3. \A m \in Pin : meta[m] # None => meta'[m] = meta[m]
    BY <1>4 DEF PinStep
  <2>4. meta'[step[p]] = Expected(p, step[p])
    BY <1>4 DEF PinStep
  <2>5. StoreType'
    BY <1>4, <2>2 DEF PinStep, Following
  <2>6. ASSUME NEW q \in Process, q # p
        PROVE  /\ step[q] \in {"issuer", "count", "head", "resume", "serve"}
                    => meta'["version"] = build[q]
               /\ step[q] \in {"count", "head", "resume", "serve"} => meta'["issuer"] = key[q]
    <3>1. None \notin Version \cup Key
      BY StoreAssumption DEF Signer
    <3> QED
      BY <2>3, <3>1
  <2>7. /\ step'[p] \in {"issuer", "count", "head", "resume", "serve"}
              => meta'["version"] = build[p]
        /\ step'[p] \in {"count", "head", "resume", "serve"} => meta'["issuer"] = key[p]
    BY <1>4, <2>3, <2>4, StoreAssumption DEF PinStep, Following, Expected, Signer
  <2> QED
    BY <1>4, <2>5, <2>6, <2>7 DEF PinStep, Following
<1>5. CASE CountStep(p)
  BY <1>5 DEF CountStep
<1>6. CASE HeadStep(p)
  BY <1>6 DEF HeadStep
<1>7. CASE ResumeStep(p)
  BY <1>7 DEF ResumeStep
<1>8. CASE AppendStep(p)
  BY <1>8 DEF AppendStep
<1> QED
  BY <1>1, <1>2, <1>3, <1>4, <1>5, <1>6, <1>7, <1>8 DEF ProcessStep

\* While the rows stay, the chain is as sound as the pins are.
LEMMA RowsUntouched ==
  ASSUME NEW n \in Nat, Extent(n), UNCHANGED rows, n > 0 => UNCHANGED meta
  PROVE  /\ Positions' = 0 .. n - 1
         /\ \A i \in 0 .. n - 1 : RowSound(i)'
         /\ LeafAt(n)' = LeafAt(n)
         /\ n > 0 => meta'["issuer"] # None /\ meta'["version"] # None
BY DEF Extent, RowSound, LeafAt, Positions

\* The row with the largest position.
LEMMA LastOfRows ==
  ASSUME NEW n \in Nat, Extent(n)
  PROVE  /\ Positions = {} <=> n = 0
         /\ Cardinality(Positions) = n
         /\ n > 0 => LastPosition = n - 1 /\ LastRow = rows[n - 1].blob
<1>1. Positions = 0 .. n - 1
  BY DEF Extent
<1>2. Positions = {} <=> n = 0
  BY <1>1
<1>3. Cardinality(Positions) = n
  BY <1>1, FS_Interval
<1>4. ASSUME n > 0 PROVE LastPosition = n - 1
  <2>1. n - 1 \in Positions /\ \A j \in Positions : j <= n - 1
    BY <1>1, <1>4
  <2>2. LastPosition \in Positions /\ \A j \in Positions : j <= LastPosition
    BY <2>1 DEF LastPosition
  <2> QED
    BY <1>1, <2>1, <2>2
<1> QED
  BY <1>2, <1>3, <1>4 DEF LastRow

LEMMA ChainKept ==
  ASSUME StoreInv, NEW p \in Process, ProcessStep(p), edits = 0
  PROVE  \E n \in Nat : Extent(n)'
<1>1. PICK n \in Nat : Extent(n)
  BY DEF StoreInv, ChainInv
<1> USE DEF StoreInv, StoreType, Opened
<1>2. CASE StartStep(p) \/ StopStep(p) \/ PeekStep(p) \/ ResumeStep(p)
  <2>1. UNCHANGED <<rows, meta>>
    BY <1>2 DEF StartStep, StopStep, PeekStep, ResumeStep
  <2>2. \A q \in Process :
          /\ step'[q] \in {"head", "resume", "serve"} => len'[q] \in 0 .. n
          /\ step'[q] \in {"resume", "serve"} /\ len'[q] = n => leaf'[q] = LeafAt(n)
    BY <1>1, <1>2 DEF StartStep, StopStep, PeekStep, ResumeStep, Extent
  <2>3. Extent(n)'
    BY <1>1, <2>1, <2>2, RowsUntouched DEF Extent
  <2> QED
    BY <2>3
<1>3. CASE PinStep(p)
  <2>1. UNCHANGED rows /\ (n > 0 => UNCHANGED meta)
    BY <1>1, <1>3 DEF PinStep, Extent, Pin
  <2>2. \A q \in Process :
          /\ step'[q] \in {"head", "resume", "serve"} => len'[q] \in 0 .. n
          /\ step'[q] \in {"resume", "serve"} /\ len'[q] = n => leaf'[q] = LeafAt(n)
    BY <1>1, <1>3 DEF PinStep, Following, Extent
  <2>3. Extent(n)'
    BY <1>1, <2>1, <2>2, RowsUntouched DEF Extent
  <2> QED
    BY <2>3
<1>4. CASE CountStep(p)
  <2>1. UNCHANGED <<rows, meta, leaf>> /\ len' = [len EXCEPT ![p] = n]
    BY <1>1, <1>4, LastOfRows DEF CountStep
  <2>2. step' = [step EXCEPT ![p] = IF n = 0 THEN "resume" ELSE "head"]
    BY <1>1, <1>4, LastOfRows DEF CountStep
  <2>3. leaf[p] = ZeroDigest /\ LeafAt(0) = ZeroDigest
    BY <1>4 DEF CountStep, SessionInv, LeafAt
  <2>4. \A q \in Process :
          /\ step'[q] \in {"head", "resume", "serve"} => len'[q] \in 0 .. n
          /\ step'[q] \in {"resume", "serve"} /\ len'[q] = n => leaf'[q] = LeafAt(n)
    BY <1>1, <2>1, <2>2, <2>3 DEF Extent
  <2>5. Extent(n)'
    BY <1>1, <2>1, <2>4, RowsUntouched DEF Extent
  <2> QED
    BY <2>5
<1>5. CASE HeadStep(p)
  <2>1. UNCHANGED <<rows, meta, len>> /\ step' = [step EXCEPT ![p] = "resume"]
    BY <1>5 DEF HeadStep
  <2>2. n > 0
    BY <1>1, <1>5, LastOfRows DEF HeadStep, LastRow
  <2>3. leaf' = [leaf EXCEPT ![p] = LeafAt(n)]
    <3>1. LastRow = rows[n - 1].blob
      BY <1>1, <2>2, LastOfRows
    <3>2. LeafAt(n) = LastRow.body.leaf
      BY <3>1, <2>2 DEF LeafAt
    <3> QED
      BY <1>5, <3>2 DEF HeadStep
  <2>4. \A q \in Process :
          /\ step'[q] \in {"head", "resume", "serve"} => len'[q] \in 0 .. n
          /\ step'[q] \in {"resume", "serve"} /\ len'[q] = n => leaf'[q] = LeafAt(n)
    BY <1>1, <1>5, <2>1, <2>3 DEF HeadStep, Extent
  <2>5. Extent(n)'
    BY <1>1, <2>1, <2>4, RowsUntouched DEF Extent
  <2> QED
    BY <2>5
<1>6. CASE AppendStep(p)
  <2>1. PICK r : /\ r # None
                 /\ Extends(p, r)
                 /\ Insertable(r)
                 /\ rows' = [i \in Positions \cup {r.body.seq} |->
                               IF i = r.body.seq THEN Row(r) ELSE rows[i]]
                 /\ len' = [len EXCEPT ![p] = @ + 1]
                 /\ leaf' = [leaf EXCEPT ![p] = r.body.leaf]
    BY <1>6 DEF AppendStep
  <2>2. step[p] = "serve" /\ UNCHANGED <<meta, step, key, build, edits>>
    BY <1>6 DEF AppendStep
  <2>3. meta["issuer"] = key[p] /\ meta["version"] = build[p]
        /\ key[p] # None /\ build[p] # None
    BY <2>2, StoreAssumption DEF SessionInv, Signer
  \* A stale cache is refused: only a process that counts all rows gets here.
  <2>4. r.body.seq = n /\ len[p] = n /\ r.body.prev = LeafAt(n)
    BY <1>1, <2>1, <2>2 DEF Extends, Insertable, Extent
  <2>5. Positions' = 0 .. n
    BY <1>1, <2>1, <2>4 DEF Positions, Extent
  <2>6. rows'[n].blob = r /\ \A i \in 0 .. n - 1 : rows'[i] = rows[i]
    BY <1>1, <2>1, <2>4 DEF Positions, Extent, Row
  <2>7. LeafAt(n + 1)' = r.body.leaf /\ \A i \in 0 .. n : LeafAt(i)' = LeafAt(i)
    BY <2>6 DEF LeafAt
  <2>8. \A i \in 0 .. n - 1 : RowSound(i)'
    BY <1>1, <2>2, <2>6, <2>7 DEF RowSound, Extent, Verifies
  <2>9. RowSound(n)'
    BY <2>1, <2>2, <2>3, <2>4, <2>6, <2>7 DEF RowSound, Extends, Verifies
  <2>10. \A q \in Process :
           /\ step'[q] \in {"head", "resume", "serve"} => len'[q] \in 0 .. n + 1
           /\ step'[q] \in {"resume", "serve"} /\ len'[q] = n + 1 => leaf'[q] = LeafAt(n + 1)'
    BY <1>1, <2>1, <2>2, <2>4, <2>7 DEF Extent
  <2>11. Extent(n + 1)'
    BY <2>2, <2>3, <2>5, <2>8, <2>9, <2>10 DEF Extent
  <2> QED
    BY <2>11
<1> QED
  BY <1>2, <1>3, <1>4, <1>5, <1>6 DEF ProcessStep

LEMMA StepSound == StoreInv /\ [SNext]_svars => StoreInv'
<1> SUFFICES ASSUME StoreInv, [SNext]_svars PROVE StoreInv'
  OBVIOUS
<1>1. CASE Quiet
  BY <1>1, QuietSound
<1>2. CASE EditStep
  BY <1>2 DEF EditStep, StoreInv, StoreType, SessionInv, ChainInv
<1>3. ASSUME NEW p \in Process, ProcessStep(p)
      PROVE  StoreInv'
  <2>1. edits' = edits
    BY <1>3 DEF ProcessStep, StartStep, PeekStep, StopStep, PinStep, CountStep, HeadStep,
                ResumeStep, AppendStep
  <2> QED
    BY <1>3, <2>1, SessionsSound, ChainKept DEF StoreInv, ChainInv
<1> QED
  BY <1>1, <1>2, <1>3, StepsSummarized DEF StoreInv

THEOREM StoreIsSound == SSpec => []StoreInv
  BY InitSound, StepSound, PTL DEF SSpec

-----------------------------------------------------------------------------
(* What follows.                                                           *)

\* A row of the chain passes the walk of verify_chain.
LEMMA RowsWalk ==
  ASSUME NEW n \in Nat, Extent(n), NEW i \in 0 .. n - 1
  PROVE  RowVerifies(i, meta["version"])
<1>1. RowsBelow(i) = 0 .. i - 1
  BY DEF RowsBelow, Extent
<1>2. Cardinality(RowsBelow(i)) = i
  BY <1>1, FS_Interval
<1>3. LeafBelow(i) = LeafAt(i)
  <2>1. CASE i = 0
    BY <1>1, <2>1 DEF LeafBelow, LeafAt
  <2>2. CASE i > 0
    <3> DEFINE last == CHOOSE j \in RowsBelow(i) : \A h \in RowsBelow(i) : h <= j
    <3>1. i - 1 \in RowsBelow(i) /\ \A h \in RowsBelow(i) : h <= i - 1
      BY <1>1, <2>2
    <3>2. last \in RowsBelow(i) /\ \A h \in RowsBelow(i) : h <= last
      BY <3>1
    <3>3. last = i - 1
      BY <1>1, <3>1, <3>2
    <3>4. RowsBelow(i) # {}
      BY <3>1
    <3>5. LeafBelow(i) = rows[last].blob.body.leaf
      BY <3>4, Zenon DEF LeafBelow
    <3> HIDE DEF last
    <3> QED
      BY <2>2, <3>3, <3>5 DEF LeafAt
  <2> QED
    BY <2>1, <2>2
<1> QED
  BY <1>2, <1>3 DEF Extent, RowSound, RowVerifies

\* Any number of processes may open, write and leave the database, with caches
\* that have gone stale, and pass through sleep: until the file is edited it
\* holds one sound chain without gaps (store-sqlite open_inner, append).
THEOREM ChainIsOne == SSpec => []OneChain
<1>1. StoreInv => OneChain
  <2> SUFFICES ASSUME StoreInv, edits = 0
               PROVE  /\ Positions = 0 .. Cardinality(Positions) - 1
                      /\ AllRowsVerify(meta["version"])
    BY DEF OneChain
  <2>1. PICK n \in Nat : Extent(n)
    BY DEF StoreInv, ChainInv
  <2>2. Cardinality(Positions) = n
    BY <2>1, LastOfRows
  <2>3. Positions = 0 .. n - 1 /\ \A i \in 0 .. n - 1 : rows[i].blob # None
    BY <2>1 DEF Extent, RowSound
  <2>4. AllRowsVerify(meta["version"])
    BY <2>1, <2>3, RowsWalk DEF AllRowsVerify
  <2> QED
    BY <2>2, <2>3, <2>4
<1> QED
  BY <1>1, StoreIsSound, PTL

\* Whoever has the log open has it open for the one issuer and version that are
\* pinned, whatever race the pins were settled by, and every receipt that was
\* appended is that issuer's (check_or_set_meta, append).
THEOREM IssuerIsOne == SSpec => []OneIssuer
<1>1. StoreInv => OneIssuer
  <2> SUFFICES ASSUME StoreInv PROVE OneIssuer
    OBVIOUS
  <2>1. \A p \in Process : step[p] \in Opened \cup {"count", "head"} =>
          key[p] = meta["issuer"] /\ build[p] = meta["version"]
    BY DEF StoreInv, SessionInv, Opened
  <2>2. edits = 0 => \A i \in Positions : rows[i].blob.issuer = meta["issuer"]
    BY DEF StoreInv, ChainInv, Extent, RowSound
  <2> QED
    BY <2>1, <2>2 DEF OneIssuer
<1> QED
  BY <1>1, StoreIsSound, PTL

\* No operation of any process changes a row, removes one, or moves a pin that is
\* set: INSERT is the only statement that writes.
THEOREM RowsStay == SSpec => RowsAreForever
<1> DEFINE Stay ==
      /\ edits' = edits => \A i \in DOMAIN rows : i \in DOMAIN rows' /\ rows'[i] = rows[i]
      /\ \A m \in Pin : meta[m] # None => meta'[m] = meta[m]
<1>1. StoreInv /\ [SNext]_svars => Stay
  <2> SUFFICES ASSUME StoreInv, [SNext]_svars PROVE Stay
    OBVIOUS
  <2>1. CASE Quiet
    BY <2>1 DEF Quiet
  <2>2. CASE EditStep
    BY <2>2 DEF EditStep, StoreInv, StoreType
  <2>3. ASSUME NEW p \in Process, ProcessStep(p)
        PROVE  Stay
    <3>1. CASE AppendStep(p)
      BY <3>1 DEF AppendStep, Insertable, Positions
    <3>2. CASE PinStep(p)
      BY <3>2 DEF PinStep, StoreInv, StoreType
    <3>3. CASE StartStep(p) \/ PeekStep(p) \/ StopStep(p) \/ CountStep(p) \/ HeadStep(p)
                 \/ ResumeStep(p)
      BY <3>3 DEF StartStep, PeekStep, StopStep, CountStep, HeadStep, ResumeStep
    <3> QED
      BY <2>3, <3>1, <3>2, <3>3 DEF ProcessStep
  <2> QED
    BY <2>1, <2>2, <2>3, StepsSummarized DEF StoreInv
<1> QED
  BY <1>1, StoreIsSound, PTL DEF SSpec, RowsAreForever

-----------------------------------------------------------------------------
(* No false alarms.                                                        *)

Outcome == [ok : BOOLEAN, items : Nat]

\* While a deep sleep is under way, every failure so far is a statement that failed.
AlarmInv ==
  /\ errors \in Nat
  /\ DOMAIN pass = Process
  /\ \A p \in Process : pass[p] # None => step[p] = "serve"
  /\ edits = 0 => \A p \in Process : pass[p] # None =>
       /\ pass[p] \in [kind : {"light", "deep"}, done : Seq(Outcome)]
       /\ pass[p].kind = "deep" => FailedCount(pass[p].done) <= errors
  /\ NoFalseAlarm

LEMMA FailedType ==
  ASSUME NEW done \in Seq(Outcome)
  PROVE  /\ IsFiniteSet({n \in 1 .. Len(done) : ~done[n].ok})
         /\ FailedCount(done) \in Nat
<1>1. IsFiniteSet(1 .. Len(done))
  BY FS_Interval
<1>2. IsFiniteSet({n \in 1 .. Len(done) : ~done[n].ok})
  BY <1>1, FS_Subset
<1> QED
  BY <1>2, FS_CardinalityType DEF FailedCount

\* One more outcome is at most one more failure, and none if it is a success.
LEMMA FailedOneMore ==
  ASSUME NEW done \in Seq(Outcome), NEW o \in Outcome
  PROVE  /\ Append(done, o) \in Seq(Outcome)
         /\ FailedCount(Append(done, o)) = FailedCount(done) + (IF o.ok THEN 0 ELSE 1)
<1> DEFINE F == {n \in 1 .. Len(done) : ~done[n].ok}
           G == {n \in 1 .. Len(Append(done, o)) : ~Append(done, o)[n].ok}
<1>1. FailedCount(done) = Cardinality(F) /\ FailedCount(Append(done, o)) = Cardinality(G)
  BY DEF FailedCount
<1>2. IsFiniteSet(F)
  BY FailedType
<1>3. G = IF o.ok THEN F ELSE F \cup {Len(done) + 1}
  <2>1. Len(Append(done, o)) = Len(done) + 1
    OBVIOUS
  <2>2. \A n \in 1 .. Len(done) : Append(done, o)[n] = done[n]
    OBVIOUS
  <2>3. Append(done, o)[Len(done) + 1] = o
    OBVIOUS
  <2> QED
    BY <2>1, <2>2, <2>3
<1>4. Len(done) + 1 \notin F
  OBVIOUS
<1> HIDE DEF F, G
<1>5. CASE o.ok
  <2>1. G = F
    BY <1>3, <1>5
  <2>2. Cardinality(F) \in Nat
    BY <1>2, FS_CardinalityType
  <2> QED
    BY <1>1, <1>5, <2>1, <2>2
<1>6. CASE ~o.ok
  <2>1. Cardinality(G) = Cardinality(F) + 1
    BY <1>2, <1>3, <1>4, <1>6, FS_AddElement
  <2> QED
    BY <1>1, <1>6, <2>1
<1> QED
  BY <1>5, <1>6

\* A walk of a log that nobody edited succeeds, however far behind its process is.
LEMMA WalkSucceeds ==
  ASSUME StoreInv, edits = 0, NEW p \in Process, step[p] = "serve"
  PROVE  WalkOutcome(p) \in Outcome /\ WalkOutcome(p).ok
<1>1. PICK n \in Nat : Extent(n)
  BY DEF StoreInv, ChainInv
<1>2. build[p] = meta["version"] /\ len[p] \in Nat
  BY <1>1 DEF StoreInv, SessionInv, Extent
<1>3. AllRowsVerify(build[p])
  <2>1. Positions = 0 .. n - 1 /\ \A i \in 0 .. n - 1 : rows[i].blob # None
    BY <1>1 DEF Extent, RowSound
  <2> QED
    BY <1>1, <1>2, <2>1, RowsWalk DEF AllRowsVerify
<1> QED
  BY <1>2, <1>3 DEF WalkOutcome, Succeeded, Outcome

\* Passes stay as they are, and nothing is signed that says it is a deep sleep.
LEMMA AlarmQuiet ==
  ASSUME AlarmInv, UNCHANGED pass, errors' \in Nat, errors' >= errors,
         \A p \in Process : pass[p] # None => step'[p] = "serve",
         edits' = edits \/ edits' # 0,
         \A r \in signed' \ signed : r.body.action \notin SleepAction
  PROVE  AlarmInv'
<1>1. ASSUME edits' = 0, NEW p \in Process, pass[p] # None
      PROVE  /\ pass[p] \in [kind : {"light", "deep"}, done : Seq(Outcome)]
             /\ pass[p].kind = "deep" => FailedCount(pass[p].done) <= errors'
  <2>1. FailedCount(pass[p].done) \in Nat
    BY <1>1, FailedType DEF AlarmInv
  <2> QED
    BY <1>1, <2>1 DEF AlarmInv
<1>2. NoFalseAlarm'
  <2> SUFFICES ASSUME edits' = 0, NEW r \in signed', r.body.action \in SleepAction,
                      r.body.action.sleep = "deep"
               PROVE  r.body.action.failed <= errors'
    BY DEF NoFalseAlarm, SleepAction
  <2>1. r.body.action.failed <= errors
    BY DEF AlarmInv, NoFalseAlarm
  <2>2. r.body.action.failed \in Nat
    BY DEF SleepAction
  <2> QED
    BY <2>1, <2>2 DEF AlarmInv
<1> QED
  BY <1>1, <1>2 DEF AlarmInv, FailedCount

\* Opening signs nothing, and never concerns a process that serves.
LEMMA OpenQuiet ==
  ASSUME NEW p \in Process, Open(p), DOMAIN step = Process
  PROVE  /\ UNCHANGED <<signed, edits>>
         /\ errors' = errors \/ errors' = errors + 1
         /\ \A q \in Process : step[q] = "serve" => step'[q] = "serve"
<1> USE DEF history, Move, Pin
<1>1. CASE Start(p) \/ Peek(p) \/ PeekRefused(p)
  BY <1>1 DEF Start, Peek, PeekRefused, Stop
<1>2. CASE PinAgrees(p) \/ PinDiffers(p) \/ PinMissing(p) \/ InsertPin(p) \/ InsertPinFails(p)
  BY <1>2 DEF PinAgrees, PinDiffers, PinMissing, InsertPin, InsertPinFails, Stop
<1>3. CASE Count(p) \/ ReadHead(p) \/ ReadHeadFails(p)
  BY <1>3 DEF Count, ReadHead, ReadHeadFails, Stop
<1>4. CASE Resume(p) \/ ResumeUnread(p)
  BY <1>4 DEF Resume, ResumeUnread, ResumeWith
<1> QED
  BY <1>1, <1>2, <1>3, <1>4 DEF Open

\* A signature: what is signed, and what stays.
LEMMA SignedActions ==
  ASSUME NEW p \in Process, NEW a, SignAction(p, a)
  PROVE  /\ UNCHANGED <<step, edits, errors>>
         /\ \A r \in signed' \ signed : r.body.action = a
BY DEF SignAction, Sign, Minted

LEMMA AwakeSound ==
  ASSUME StoreInv, AlarmInv, NEW p \in Process, Awake(p), Work \cap SleepAction = {}
  PROVE  AlarmInv'
<1>1. UNCHANGED pass /\ DOMAIN step = Process /\ errors \in Nat
  BY DEF Awake, StoreInv, StoreType, AlarmInv
<1>2. CASE Open(p)
  BY <1>1, <1>2, OpenQuiet, AlarmQuiet DEF AlarmInv
<1>3. CASE \E a \in Work : SignAction(p, a)
  <2>1. PICK a \in Work : SignAction(p, a)
    BY <1>3
  <2>2. a \notin SleepAction
    BY <2>1
  <2> QED
    BY <1>1, <2>1, <2>2, SignedActions, AlarmQuiet DEF AlarmInv
<1>4. CASE Offer(p) \/ AppendRow(p) \/ AppendFails(p) \/ InsertFails(p)
  <2>1. UNCHANGED <<step, signed, edits>> /\ (errors' = errors \/ errors' = errors + 1)
    BY <1>4 DEF Offer, AppendRow, AppendFails, InsertFails, history
  <2> QED
    BY <1>1, <2>1, AlarmQuiet DEF AlarmInv
<1> QED
  BY <1>2, <1>3, <1>4 DEF Awake, Serve

\* A member of a pass runs; a failing walker had a failing read.
LEMMA MemberSound ==
  ASSUME AlarmInv, NEW p \in Process, NEW kind, NEW o, MemberRuns(p, kind, o),
         UNCHANGED <<step, signed, edits>>, errors' \in Nat, errors' >= errors,
         edits = 0 => o \in Outcome /\ (kind = "deep" /\ ~o.ok => errors' = errors + 1)
  PROVE  AlarmInv'
<1>1. /\ pass[p] # None
      /\ pass[p].kind = kind
      /\ pass' = [pass EXCEPT ![p].done = Append(@, o)]
  BY DEF MemberRuns
<1>2. DOMAIN pass' = Process /\ \A q \in Process : q # p => pass'[q] = pass[q]
  BY <1>1 DEF AlarmInv
<1>3. \A q \in Process : pass'[q] # None => step'[q] = "serve"
  BY <1>1, <1>2 DEF AlarmInv
<1>4. ASSUME edits = 0, NEW q \in Process, pass'[q] # None
      PROVE  /\ pass'[q] \in [kind : {"light", "deep"}, done : Seq(Outcome)]
             /\ pass'[q].kind = "deep" => FailedCount(pass'[q].done) <= errors'
  <2>1. CASE q # p
    <3>1. pass'[q] = pass[q] /\ pass[q].done \in Seq(Outcome)
      BY <1>2, <1>4, <2>1 DEF AlarmInv
    <3>2. FailedCount(pass[q].done) \in Nat
      BY <3>1, FailedType
    <3> QED
      BY <1>4, <3>1, <3>2 DEF AlarmInv
  <2>2. CASE q = p
    <3> DEFINE done == pass[p].done
    <3>1. pass[p] \in [kind : {"light", "deep"}, done : Seq(Outcome)]
      BY <1>1, <1>4 DEF AlarmInv
    <3>2. done \in Seq(Outcome) /\ o \in Outcome
      BY <1>4, <3>1
    <3>3. pass'[p] = [kind |-> kind, done |-> Append(done, o)]
      BY <1>1, <3>1 DEF AlarmInv
    <3>4. FailedCount(Append(done, o)) = FailedCount(done) + (IF o.ok THEN 0 ELSE 1)
      BY <3>2, FailedOneMore
    <3>5. FailedCount(done) \in Nat
      BY <3>2, FailedType
    <3>6. kind = "deep" => FailedCount(done) <= errors
      BY <1>1, <1>4 DEF AlarmInv
    <3>7. Append(done, o) \in Seq(Outcome)
      BY <3>2, FailedOneMore
    <3>8. kind = "deep" => FailedCount(Append(done, o)) <= errors'
      <4> HIDE DEF done
      <4> QED
        BY <1>4, <3>4, <3>5, <3>6 DEF AlarmInv
    <3>9. kind \in {"light", "deep"}
      BY <1>1, <3>1
    <3> HIDE DEF done
    <3>10. pass'[p].kind = kind /\ pass'[p].done = Append(done, o)
      BY <3>3
    <3>11. [kind |-> kind, done |-> Append(done, o)]
             \in [kind : {"light", "deep"}, done : Seq(Outcome)]
      BY <3>7, <3>9
    <3> QED
      BY <2>2, <3>3, <3>8, <3>10, <3>11
  <2> QED
    BY <2>1, <2>2
<1>5. NoFalseAlarm'
  <2> SUFFICES ASSUME edits = 0, NEW r \in signed, r.body.action \in SleepAction,
                      r.body.action.sleep = "deep"
               PROVE  r.body.action.failed <= errors'
    BY DEF NoFalseAlarm, SleepAction
  <2>1. r.body.action.failed <= errors /\ r.body.action.failed \in Nat
    BY DEF AlarmInv, NoFalseAlarm, SleepAction
  <2> QED
    BY <2>1 DEF AlarmInv
<1> QED
  BY <1>2, <1>3, <1>4, <1>5 DEF AlarmInv, FailedCount

LEMMA AsleepSound ==
  ASSUME StoreInv, AlarmInv, NEW p \in Process, Asleep(p)
  PROVE  AlarmInv'
<1> USE DEF vars, history
<1>1. CASE BeginPass(p)
  <2>1. /\ step[p] = "serve"
        /\ UNCHANGED <<step, signed, edits, errors>>
        /\ \E kind \in {"light", "deep"} :
             pass' = [pass EXCEPT ![p] = [kind |-> kind, done |-> << >>]]
    BY <1>1 DEF BeginPass, Writer
  <2>2. << >> \in Seq(Outcome) /\ FailedCount(<< >>) = 0
    BY FS_EmptySet DEF FailedCount
  <2>3. DOMAIN pass' = Process /\ \A q \in Process : q # p => pass'[q] = pass[q]
    BY <2>1 DEF AlarmInv
  <2>4. NoFalseAlarm'
    BY <2>1 DEF AlarmInv, NoFalseAlarm, SleepAction
  <2>5. /\ pass'[p] \in [kind : {"light", "deep"}, done : Seq(Outcome)]
        /\ FailedCount(pass'[p].done) = 0
    <3>1. PICK kind \in {"light", "deep"} : pass'[p] = [kind |-> kind, done |-> << >>]
      BY <2>1 DEF AlarmInv
    <3> QED
      BY <2>2, <3>1
  <2>6. ASSUME edits = 0, NEW q \in Process, pass'[q] # None
        PROVE  /\ pass'[q] \in [kind : {"light", "deep"}, done : Seq(Outcome)]
               /\ pass'[q].kind = "deep" => FailedCount(pass'[q].done) <= errors
    <3>1. CASE q = p
      BY <2>5, <3>1 DEF AlarmInv
    <3>2. CASE q # p
      BY <2>3, <2>6, <3>2 DEF AlarmInv
    <3> QED
      BY <3>1, <3>2
  <2>7. \A q \in Process : pass'[q] # None => step'[q] = "serve"
    BY <2>1, <2>3 DEF AlarmInv
  <2> QED
    BY <2>1, <2>3, <2>4, <2>6, <2>7 DEF AlarmInv, FailedCount
<1>2. CASE Clean(p)
  <2>1. PICK o \in {Failed} \cup {Succeeded(n) : n \in 0 .. MaxCleaned} :
          MemberRuns(p, "light", o)
    BY <1>2 DEF Clean
  <2>2. o \in Outcome
    <3>1. CASE o = Failed
      BY <3>1 DEF Outcome, Failed
    <3>2. CASE \E n \in 0 .. MaxCleaned : o = Succeeded(n)
      <4>1. PICK n \in 0 .. MaxCleaned : o = Succeeded(n)
        BY <3>2
      <4>2. n \in Nat
        BY SleepAssumption
      <4> QED
        BY <4>1, <4>2 DEF Outcome, Succeeded
    <3> QED
      BY <2>1, <3>1, <3>2
  <2>3. UNCHANGED <<step, signed, edits, errors>>
    BY <1>2 DEF Clean
  <2> QED
    BY <2>1, <2>2, <2>3, MemberSound DEF AlarmInv
<1>3. CASE Walk(p)
  <2>1. MemberRuns(p, "deep", WalkOutcome(p)) /\ UNCHANGED <<step, signed, edits, errors>>
    BY <1>3 DEF Walk
  <2>2. step[p] = "serve"
    BY <2>1 DEF MemberRuns, AlarmInv
  <2>3. edits = 0 => WalkOutcome(p) \in Outcome /\ WalkOutcome(p).ok
    BY <2>2, WalkSucceeds
  <2> QED
    BY <2>1, <2>3, MemberSound DEF AlarmInv
<1>4. CASE WalkUnread(p)
  <2>1. MemberRuns(p, "deep", Failed) /\ UNCHANGED <<step, signed, edits>>
        /\ errors' = errors + 1
    BY <1>4 DEF WalkUnread
  <2>2. Failed \in Outcome
    BY DEF Failed, Outcome
  <2> QED
    BY <2>1, <2>2, MemberSound DEF AlarmInv
<1>5. CASE ReportPass(p)
  <2> DEFINE a == Summary(pass[p].kind, pass[p].done)
  <2>1. pass[p] # None /\ SignAction(p, a) /\ pass' = [pass EXCEPT ![p] = None]
    BY <1>5 DEF ReportPass
  <2>2. a.sleep = pass[p].kind /\ a.failed = FailedCount(pass[p].done)
    BY DEF Summary
  <2>3. edits = 0 /\ a.sleep = "deep" => a.failed <= errors
    BY <2>1, <2>2 DEF AlarmInv
  <2> HIDE DEF a
  <2>4. UNCHANGED <<step, edits, errors>> /\ \A r \in signed' \ signed : r.body.action = a
    BY <2>1, SignedActions
  <2>5. NoFalseAlarm'
    BY <2>3, <2>4 DEF AlarmInv, NoFalseAlarm, SleepAction
  <2> QED
    BY <2>1, <2>4, <2>5 DEF AlarmInv, FailedCount
<1> QED
  BY <1>1, <1>2, <1>3, <1>4, <1>5 DEF Asleep

\* However many processes write while one of them sleeps, and however far behind
\* that one is: until the file is edited, a deep sleep reports no more failures than
\* statements have failed, if no client proposes what looks like a sleep
\* (run_deep_sleep, ReceiptLogWalker::walk).
THEOREM AlarmsAreReal ==
  ASSUME Work \cap SleepAction = {}
  PROVE  SSpec => []NoFalseAlarm
<1>1. SInit => AlarmInv
  BY DEF SInit, Init, AlarmInv, NoFalseAlarm
<1>2. StoreInv /\ AlarmInv /\ [SNext]_svars => AlarmInv'
  <2> SUFFICES ASSUME StoreInv, AlarmInv, [SNext]_svars PROVE AlarmInv'
    OBVIOUS
  <2>1. ASSUME NEW p \in Process, Awake(p) \/ Asleep(p)
        PROVE  AlarmInv'
    BY <2>1, AwakeSound, AsleepSound
  <2>2. ASSUME NEW p \in Process, ExitAsleep(p)
        PROVE  AlarmInv'
    BY <2>2 DEF ExitAsleep, Exit, Stop, history, StoreInv, StoreType, AlarmInv, NoFalseAlarm,
                SleepAction, FailedCount
  <2>3. CASE EditFile /\ UNCHANGED <<pass, passes>>
    <3>1. PICK table : Edit(table)
      BY <2>3 DEF EditFile, AlterBody, AlterVersion, DeleteRow, Garble, Reissue, SwapBodies, InsertRow
    <3>2. UNCHANGED <<step, signed, errors, pass>> /\ edits' = edits + 1
      BY <2>3, <3>1 DEF Edit
    <3> QED
      BY <3>2, AlarmQuiet DEF AlarmInv, StoreInv, StoreType
  <2>4. CASE UNCHANGED svars
    <3>1. UNCHANGED <<step, signed, errors, pass, edits>>
      BY <2>4 DEF svars, vars, history
    <3> QED
      BY <3>1, AlarmQuiet DEF AlarmInv
  <2> QED
    BY <2>1, <2>2, <2>3, <2>4 DEF SNext
<1>3. AlarmInv => NoFalseAlarm
  BY DEF AlarmInv
<1> QED
  BY <1>1, <1>2, <1>3, StoreIsSound, PTL DEF SSpec

-----------------------------------------------------------------------------
(* Types.                                                                  *)

RowType == [id : Receipt, blob : Envelope \cup {None}]

TableType(table) ==
  /\ IsFiniteSet(DOMAIN table)
  /\ DOMAIN table \subseteq Nat
  /\ table \in [DOMAIN table -> RowType]

MemoryType ==
  /\ meta \in [Pin -> Version \cup Key \cup {None}]
  /\ step \in [Process -> Step]
  /\ absent \in [Process -> BOOLEAN]
  /\ mode \in [Process -> {"proposal", "readonly", None}]
  /\ key \in [Process -> Key \cup {None}]
  /\ build \in [Process -> Version \cup {None}]
  /\ len \in [Process -> Nat]
  /\ leaf \in [Process -> Digest]
  /\ kernel \in [Process -> KernelState]

\* Only so many receipts are signed, and no others than these and those from
\* outside are ever held or appended.
HistoryType ==
  /\ signed \subseteq Envelope
  /\ IsFiniteSet(signed)
  /\ Cardinality(signed) <= MaxSigned
  /\ acked \subseteq signed \cup Outside
  /\ held \in [Process -> signed \cup Outside \cup {None}]

\* The positions that were ever filled, by append or by one edit each, have no gap, and no
\* process counts more rows than there are such positions, even if some were deleted and
\* filled again.
Filled == {a.body.seq : a \in acked}

FilledUpTo(n) ==
  /\ \E inserted : /\ IsFiniteSet(inserted)
                   /\ Cardinality(inserted) <= edits
                   /\ Filled \cup inserted = 0 .. n - 1
  /\ Positions \subseteq 0 .. n - 1
  /\ \A p \in Process : len[p] \in 0 .. n

\* What a member of a pass reports.
Report == [ok : BOOLEAN, items : 0 .. MaxItems]

PassType ==
  /\ pass \in [Process -> {None} \cup [kind : {"light", "deep"}, done : Seq(Report)]]
  /\ \A p \in Process : pass[p] # None =>
       /\ Len(pass[p].done) <= Members
       /\ ItemsTotal(pass[p].done) <= Len(pass[p].done) * MaxItems

TypeInv ==
  /\ MemoryType
  /\ TableType(rows)
  /\ HistoryType
  /\ \E n \in Nat : FilledUpTo(n)
  /\ PassType

LEMMA EnvelopeParts ==
  ASSUME NEW r \in Envelope
  PROVE  /\ r.version \in Format
         /\ r.issuer \in Signer
         /\ r.body \in Receipt
         /\ r.body.seq \in Nat
         /\ r.body.leaf \in Digest
         /\ r # None
BY StoreAssumption DEF Envelope, Receipt

\* The row with the largest position, when there is one.
LEMMA LastRowType ==
  ASSUME TableType(rows)
  PROVE  LastRow \in Envelope \cup {None}
<1>1. CASE Positions = {}
  BY <1>1 DEF LastRow
<1>2. CASE Positions # {}
  <2>1. \E m \in Positions : \A n \in Positions : n <= m
    BY <1>2, GreatestElement DEF TableType, Positions
  <2>2. LastPosition \in Positions
    BY <2>1 DEF LastPosition
  <2>3. rows[LastPosition] \in RowType
    BY <2>2 DEF TableType, Positions
  <2> QED
    BY <1>2, <2>3 DEF LastRow, RowType
<1> QED
  BY <1>1, <1>2

\* What a kernel signs.
LEMMA SignedType ==
  ASSUME NEW v \in Version, NEW k \in Key, NEW s \in KernelState, NEW at \in Time,
         NEW a \in Action
  PROVE  LET r == Sign(v, k, Minted(s, at, a, "Allowed", {}, ZeroDigest)) IN
           r \in Envelope /\ Advance(s, r.body.leaf) \in KernelState
<1> DEFINE m == Minted(s, at, a, "Allowed", {}, ZeroDigest)
<1>1. "Allowed" \in Decision /\ {} \in SUBSET Rule /\ ZeroDigest \in Digest
  BY DEF Decision, ZeroDigest, Digest
<1>2. m \in Receipt /\ Advance(s, m.leaf) \in KernelState
  BY <1>1, MintedProperties DEF Continues
<1> HIDE DEF m
<1>3. Sign(v, k, m) \in Envelope /\ Sign(v, k, m).body = m
  BY <1>2, StoreAssumption DEF Sign, Envelope, Signer
<1> QED
  BY <1>2, <1>3 DEF m

\* A kernel that continues behind a row.
LEMMA ResumedType ==
  ASSUME NEW r \in Envelope
  PROVE  ResumeFrom(<<r.body>>) \in KernelState
<1>1. r.body \in Receipt
  BY EnvelopeParts
<1>2. <<r.body>> # << >> /\ Len(<<r.body>>) = 1 /\ <<r.body>>[1] = r.body
  OBVIOUS
<1> QED
  BY <1>1, <1>2 DEF ResumeFrom, HeadLeaf, KernelState, Receipt
\* Opening keeps the types; of what others see it only sets pins.
LEMMA OpenTyped ==
  ASSUME TypeInv, StoreInv, NEW p \in Process, Open(p)
  PROVE  /\ MemoryType'
         /\ UNCHANGED <<rows, signed, acked>>
         /\ \A q \in Process : len'[q] \in {len[q], 0, Cardinality(Positions)}
         /\ \A q \in Process : held'[q] \in {held[q], None}
         /\ held' \in [Process -> signed \cup Outside \cup {None}]
<1> USE DEF TypeInv, MemoryType, HistoryType, database, session, cache, history, Move, Pin, Step,
            Opened
<1>1. Cardinality(Positions) \in Nat
  BY FS_CardinalityType DEF TableType, Positions
<1>2. Genesis \in KernelState /\ ZeroDigest \in Digest
  BY DEF Genesis, KernelState, ZeroDigest, Digest
<1>3. LastRow \in Envelope \cup {None}
  BY LastRowType
<1>4. CASE Start(p)
  BY <1>4 DEF Start
<1>5. CASE Peek(p)
  <2>1. meta["issuer"] \in Key \cup {None}
    BY DEF StoreInv, StoreType
  <2> QED
    BY <1>5, <2>1 DEF Peek
<1>6. CASE PeekRefused(p) \/ PinDiffers(p) \/ InsertPinFails(p) \/ ReadHeadFails(p)
  <2>1. Stop(p)
    BY <1>6 DEF PeekRefused, PinDiffers, InsertPinFails, ReadHeadFails
  <2> QED
    BY <1>2, <2>1 DEF Stop
<1>7. CASE PinAgrees(p)
  BY <1>7 DEF PinAgrees, Following
<1>8. CASE PinMissing(p)
  BY <1>8 DEF PinMissing
<1>9. CASE InsertPin(p)
  BY <1>9 DEF InsertPin, Following, Expected
<1>10. CASE Count(p)
  BY <1>1, <1>10 DEF Count
<1>11. CASE ReadHead(p)
  <2>1. LastRow.body.leaf \in Digest
    BY <1>3, <1>11, EnvelopeParts DEF ReadHead
  <2> QED
    BY <1>11, <2>1 DEF ReadHead
<1>12. CASE Resume(p) \/ ResumeUnread(p)
  <2>1. PICK last \in Envelope \cup {None} : ResumeWith(p, last)
    BY <1>3, <1>12 DEF Resume, ResumeUnread, LogLast
  <2>2. last # None => ResumeFrom(<<last.body>>) \in KernelState
    BY ResumedType
  <2>3. kernel' \in [Process -> KernelState]
    BY <1>2, <2>1, <2>2 DEF ResumeWith
  <2>4. step' \in [Process -> Step]
    BY <2>1 DEF ResumeWith
  <2> QED
    BY <2>1, <2>3, <2>4 DEF ResumeWith
<1> QED
  BY <1>4, <1>5, <1>6, <1>7, <1>8, <1>9, <1>10, <1>11, <1>12 DEF Open

\* So does a signature, of whatever is an action.
LEMMA SignTyped ==
  ASSUME TypeInv, StoreInv, NEW p \in Process, NEW a \in Action, SignAction(p, a)
  PROVE  /\ MemoryType'
         /\ HistoryType'
         /\ UNCHANGED <<rows, acked, len>>
<1> USE DEF TypeInv, MemoryType, HistoryType
<1>1. PICK at \in Time :
        LET r == Sign(build[p], key[p], Minted(kernel[p], at, a, "Allowed", {}, ZeroDigest)) IN
          /\ held' = [held EXCEPT ![p] = r]
          /\ signed' = signed \cup {r}
          /\ kernel' = [kernel EXCEPT ![p] = Advance(kernel[p], r.body.leaf)]
  BY DEF SignAction
<1> DEFINE r == Sign(build[p], key[p], Minted(kernel[p], at, a, "Allowed", {}, ZeroDigest))
<1>2. step[p] = "serve" /\ Cardinality(signed) < MaxSigned
      /\ UNCHANGED <<database, step, session, cache, acked, edits, errors>>
  BY DEF SignAction, Writer
<1>3. key[p] \in Key /\ build[p] \in Version /\ kernel[p] \in KernelState
  BY <1>2 DEF StoreInv, SessionInv
<1>4. r \in Envelope /\ Advance(kernel[p], r.body.leaf) \in KernelState
  BY <1>3, SignedType
<1>5. /\ held' = [held EXCEPT ![p] = r]
      /\ signed' = signed \cup {r}
      /\ kernel' = [kernel EXCEPT ![p] = Advance(kernel[p], r.body.leaf)]
  BY <1>1
<1> HIDE DEF r
<1>6. MemoryType'
  BY <1>2, <1>4, <1>5 DEF database, session, cache
<1>7. IsFiniteSet(signed') /\ Cardinality(signed') <= MaxSigned
  <2>1. Cardinality(signed) \in Nat /\ MaxSigned \in Nat
    BY FS_CardinalityType, StoreAssumption
  <2>2. /\ IsFiniteSet(signed \cup {r})
        /\ Cardinality(signed \cup {r}) \in {Cardinality(signed), Cardinality(signed) + 1}
    BY FS_AddElement
  <2> QED
    BY <1>2, <1>5, <2>1, <2>2
<1>8. HistoryType'
  BY <1>2, <1>4, <1>5, <1>7
<1> QED
  BY <1>2, <1>6, <1>8 DEF database, cache
\* A row is appended: it takes a position that was filled before, or the next one.
LEMMA AppendTyped ==
  ASSUME TypeInv, NEW p \in Process, AppendRow(p)
  PROVE  MemoryType' /\ TableType(rows)' /\ HistoryType' /\ \E n \in Nat : FilledUpTo(n)'
<1> DEFINE r == held[p]
<1>1. /\ r # None
      /\ r.body.seq = len[p]
      /\ rows' = [i \in Positions \cup {r.body.seq} |->
                    IF i = r.body.seq THEN Row(r) ELSE rows[i]]
      /\ len' = [len EXCEPT ![p] = @ + 1]
      /\ leaf' = [leaf EXCEPT ![p] = r.body.leaf]
      /\ acked' = acked \cup {r}
      /\ held' = [held EXCEPT ![p] = None]
      /\ UNCHANGED <<meta, step, absent, mode, key, build, kernel, signed, edits>>
  BY DEF AppendRow, Extends, session
<1>2. r \in signed \cup Outside /\ r \in Envelope
  BY <1>1, StoreAssumption DEF TypeInv, HistoryType
<1> HIDE DEF r
<1>3. MemoryType'
  BY <1>1, <1>2, EnvelopeParts DEF TypeInv, MemoryType
<1>4. HistoryType'
  BY <1>1, <1>2 DEF TypeInv, HistoryType
<1>5. TableType(rows)'
  <2>1. Row(r) \in RowType /\ r.body.seq \in Nat
    BY <1>2, EnvelopeParts DEF Row, RowType
  <2>2. DOMAIN rows' = DOMAIN rows \cup {r.body.seq}
    BY <1>1 DEF Positions
  <2>3. rows' \in [DOMAIN rows' -> RowType]
    BY <1>1, <2>1 DEF TypeInv, TableType, Positions
  <2> QED
    BY <2>1, <2>2, <2>3, FS_AddElement DEF TypeInv, TableType
<1>6. PICK n \in Nat : FilledUpTo(n)
  BY DEF TypeInv
<1>7. len[p] \in 0 .. n /\ DOMAIN len = Process
  BY <1>6 DEF FilledUpTo, TypeInv, MemoryType
<1>8. Filled' = Filled \cup {len[p]} /\ Positions' = Positions \cup {len[p]}
  BY <1>1 DEF Filled, Positions
<1>9. PICK inserted : /\ IsFiniteSet(inserted)
                      /\ Cardinality(inserted) <= edits
                      /\ Filled \cup inserted = 0 .. n - 1
  BY <1>6 DEF FilledUpTo
<1>10. Positions \subseteq 0 .. n - 1 /\ \A q \in Process : len[q] \in 0 .. n
  BY <1>6 DEF FilledUpTo
<1>11. PICK m \in Nat : m = IF len[p] = n THEN n + 1 ELSE n
  OBVIOUS
<1>12. (0 .. n - 1) \cup {len[p]} = 0 .. m - 1
  BY <1>7, <1>11
<1>13. Filled' \cup inserted = 0 .. m - 1
  BY <1>8, <1>9, <1>12
<1>14. Positions' \subseteq 0 .. m - 1
  BY <1>8, <1>10, <1>12
<1>15. \A q \in Process : len'[q] \in 0 .. m
  BY <1>1, <1>7, <1>10, <1>11
<1>16. FilledUpTo(m)'
  BY <1>1, <1>9, <1>13, <1>14, <1>15 DEF FilledUpTo
<1> QED
  BY <1>3, <1>4, <1>5, <1>16

\* Edits of rows that are there.
LEMMA RowsEdited ==
  ASSUME TypeInv, NEW i \in Positions,
         AlterBody(i) \/ AlterVersion(i) \/ DeleteRow(i) \/ Garble(i) \/ Reissue(i)
           \/ \E j \in Positions : i < j /\ SwapBodies(i, j)
  PROVE  TableType(rows)' /\ Positions' \subseteq Positions
<1>3. rows[i] \in RowType /\ i \in Nat
  BY DEF TypeInv, TableType, Positions
<1>4. ASSUME rows' \in [Positions -> RowType]
      PROVE  TableType(rows)' /\ Positions' \subseteq Positions
  BY <1>4 DEF TypeInv, TableType, Positions
<1>5. CASE AlterBody(i)
  <2>1. PICK rs \in SUBSET Rule :
          /\ rows[i].blob # None
          /\ rows' = WithBlob(i, [rows[i].blob EXCEPT !.body.rules = rs])
    BY <1>5 DEF AlterBody, Edit
  <2>2. [rows[i].blob EXCEPT !.body.rules = rs] \in Envelope
    BY <1>3, <2>1 DEF RowType, Envelope, Receipt
  <2> HIDE DEF Envelope
  <2>3. rows' \in [Positions -> RowType]
    BY <2>1, <2>2, <1>3 DEF WithBlob, TypeInv, TableType, Positions, RowType
  <2> QED
    BY <1>4, <2>3
<1>10. CASE AlterVersion(i)
  <2>1. PICK v \in Format :
          /\ rows[i].blob # None
          /\ rows' = WithBlob(i, [rows[i].blob EXCEPT !.version = v])
    BY <1>10 DEF AlterVersion, Edit
  <2>2. [rows[i].blob EXCEPT !.version = v] \in Envelope
    BY <1>3, <2>1 DEF RowType, Envelope
  <2>3. rows' \in [Positions -> RowType]
    BY <2>1, <2>2, <1>3 DEF WithBlob, TypeInv, TableType, Positions, RowType
  <2> QED
    BY <1>4, <2>3
<1>6. CASE DeleteRow(i)
  <2>1. rows' = [j \in Positions \ {i} |-> rows[j]]
    BY <1>6 DEF DeleteRow, Edit
  <2>2. DOMAIN rows' = DOMAIN rows \ {i}
    BY <2>1 DEF Positions
  <2> QED
    BY <2>1, <2>2, FS_RemoveElement DEF TypeInv, TableType, Positions
<1>7. CASE Garble(i)
  <2>1. rows' = WithBlob(i, None)
    BY <1>7 DEF Garble, Edit
  <2>2. rows' \in [Positions -> RowType]
    BY <2>1, <1>3 DEF WithBlob, TypeInv, TableType, Positions, RowType
  <2> QED
    BY <1>4, <2>2
<1>8. CASE Reissue(i)
  <2>1. PICK rs \in SUBSET Rule :
          /\ rows[i].blob # None
          /\ rows' = [rows EXCEPT ![i] =
                Row(Sign(rows[i].blob.version, Stranger, [rows[i].blob.body EXCEPT !.rules = rs]))]
    BY <1>8 DEF Reissue, Edit
  <2>2. rows[i].blob \in Envelope
    BY <1>3, <2>1 DEF RowType
  <2>3. [rows[i].blob.body EXCEPT !.rules = rs] \in Receipt
    BY <2>2, EnvelopeParts DEF Receipt
  <2>4. Row(Sign(rows[i].blob.version, Stranger, [rows[i].blob.body EXCEPT !.rules = rs]))
          \in RowType
    BY <2>2, <2>3, EnvelopeParts DEF Row, RowType, Sign, Envelope, Signer
  <2>5. rows' \in [Positions -> RowType]
    BY <2>1, <2>4 DEF TypeInv, TableType, Positions
  <2> QED
    BY <1>4, <2>5
<1>9. ASSUME NEW j \in Positions, SwapBodies(i, j)
      PROVE  TableType(rows)' /\ Positions' \subseteq Positions
  <2>1. rows' = [rows EXCEPT ![i].blob = rows[j].blob, ![j].blob = rows[i].blob]
    BY <1>9 DEF SwapBodies, Edit
  <2>2. rows[j] \in RowType
    BY DEF TypeInv, TableType, Positions
  <2>3. rows' \in [Positions -> RowType]
    BY <2>1, <2>2, <1>3 DEF TypeInv, TableType, Positions, RowType
  <2> QED
    BY <1>4, <2>3
<1> QED
  BY <1>5, <1>6, <1>7, <1>8, <1>9, <1>10

\* An edit is counted, and changes nothing but the table.
LEMMA EditCounts ==
  ASSUME EditFile
  PROVE  /\ edits' = edits + 1
         /\ edits + errors < MaxFaults
         /\ UNCHANGED <<meta, step, absent, mode, key, build, len, leaf, kernel, held, signed, acked,
                        errors>>
BY DEF EditFile, AlterBody, AlterVersion, DeleteRow, Garble, Reissue, SwapBodies, InsertRow, Edit,
       session, cache

\* What it leaves is a table of rows.
LEMMA EditTyped ==
  ASSUME TypeInv, EditFile
  PROVE  /\ TableType(rows)'
         /\ \E i \in 0 .. Cardinality(Positions) : Positions' \subseteq Positions \cup {i}
<1>2. Cardinality(Positions) \in Nat
  BY FS_CardinalityType DEF TypeInv, TableType, Positions
<1>3. ASSUME NEW i \in Positions,
             AlterBody(i) \/ AlterVersion(i) \/ DeleteRow(i) \/ Garble(i) \/ Reissue(i)
               \/ \E j \in Positions : i < j /\ SwapBodies(i, j)
      PROVE  TableType(rows)' /\ Positions' \subseteq Positions
  BY <1>3, RowsEdited
<1>4. ASSUME NEW i \in 0 .. Cardinality(Positions), InsertRow(i)
      PROVE  TableType(rows)' /\ Positions' = Positions \cup {i}
  <2>1. PICK r \in acked \cup Outside :
          rows' = [j \in Positions \cup {i} |-> IF j = i THEN Row(r) ELSE rows[j]]
    BY <1>4 DEF InsertRow, Edit
  <2>2. r \in Envelope
    BY StoreAssumption DEF TypeInv, HistoryType
  <2>3. Row(r) \in RowType /\ i \in Nat
    BY <1>2, <2>2, EnvelopeParts DEF Row, RowType
  <2>4. DOMAIN rows' = DOMAIN rows \cup {i}
    BY <2>1 DEF Positions
  <2>5. rows' \in [DOMAIN rows' -> RowType]
    BY <2>1, <2>3 DEF TypeInv, TableType, Positions
  <2> QED
    BY <2>3, <2>4, <2>5, FS_AddElement DEF TypeInv, TableType, Positions
<1>5. CASE \E i \in 0 .. Cardinality(Positions) : InsertRow(i)
  BY <1>4, <1>5
<1>6. CASE \E i \in Positions :
             AlterBody(i) \/ AlterVersion(i) \/ DeleteRow(i) \/ Garble(i) \/ Reissue(i)
               \/ \E j \in Positions : i < j /\ SwapBodies(i, j)
  <2>1. TableType(rows)' /\ Positions' \subseteq Positions
    BY <1>3, <1>6
  <2>2. 0 \in 0 .. Cardinality(Positions)
    BY <1>2
  <2> QED
    BY <2>1, <2>2
<1> QED
  BY <1>5, <1>6 DEF EditFile

LEMMA MaxItemsType == MaxItems \in Nat /\ Cardinality(Outside) \in Nat
  BY StoreAssumption, SleepAssumption, FS_CardinalityType DEF MaxItems

\* Edits and failing statements share a bound.
FaultType == edits \in Nat /\ errors \in Nat /\ edits + errors <= MaxFaults

LEMMA FaultStep == FaultType /\ [SNext]_svars => FaultType'
<1> SUFFICES ASSUME FaultType, [SNext]_svars PROVE FaultType'
  OBVIOUS
<1> DEFINE Fault == /\ edits + errors < MaxFaults
                    /\ \/ edits' = edits + 1 /\ errors' = errors
                       \/ edits' = edits /\ errors' = errors + 1
           Counted == UNCHANGED <<edits, errors>> \/ Fault
<1>1. Counted => FaultType'
  BY StoreAssumption DEF FaultType
<1> USE DEF database, session, cache, history
<1>2. ASSUME NEW p \in Process, Open(p)
      PROVE  Counted
  BY <1>2 DEF Open, Start, Peek, PeekRefused, PinAgrees, PinDiffers, PinMissing, InsertPin,
              InsertPinFails, Count, ReadHead, ReadHeadFails, Resume, ResumeUnread, ResumeWith, Stop
<1>3. ASSUME NEW p \in Process, Serve(p)
      PROVE  Counted
  BY <1>3 DEF Serve, SignAction, Offer, AppendRow, AppendFails, InsertFails
<1>4. ASSUME NEW p \in Process, Asleep(p)
      PROVE  Counted
  BY <1>4 DEF Asleep, BeginPass, Clean, Walk, WalkUnread, ReportPass, SignAction, vars
<1>5. ASSUME NEW p \in Process, ExitAsleep(p)
      PROVE  Counted
  BY <1>5 DEF ExitAsleep, Exit, Stop
<1>6. EditFile => Counted
  BY EditCounts
<1>7. UNCHANGED svars => Counted
  BY DEF svars, vars
<1> HIDE DEF Counted
<1> QED
  BY <1>1, <1>2, <1>3, <1>4, <1>5, <1>6, <1>7 DEF SNext, Awake

THEOREM FaultsCounted == SSpec => []FaultType
<1>1. SInit => FaultType
  BY StoreAssumption DEF SInit, Init, FaultType
<1> QED
  BY <1>1, FaultStep, PTL DEF SSpec

\* No more positions were ever filled than there are receipts and edits to fill them.
LEMMA FilledBounded ==
  ASSUME HistoryType, FaultType, NEW n \in Nat, FilledUpTo(n)
  PROVE  n <= MaxSigned + Cardinality(Outside) + MaxFaults
<1> DEFINE S == signed \cup Outside
           seqOf == [a \in acked |-> a.body.seq]
<1>1. IsFiniteSet(S) /\ Cardinality(S) <= Cardinality(signed) + Cardinality(Outside)
  <2>1. IsFiniteSet(signed) /\ IsFiniteSet(Outside)
    BY StoreAssumption DEF HistoryType
  <2>2. IsFiniteSet(signed \cap Outside)
    BY <2>1, FS_Subset
  <2>3. /\ Cardinality(signed) \in Nat
        /\ Cardinality(Outside) \in Nat
        /\ Cardinality(signed \cap Outside) \in Nat
    BY <2>1, <2>2, FS_CardinalityType
  <2>4. /\ IsFiniteSet(S)
        /\ Cardinality(S) = Cardinality(signed) + Cardinality(Outside) - Cardinality(signed \cap Outside)
    BY <2>1, FS_Union
  <2> QED
    BY <2>3, <2>4
<1>2. IsFiniteSet(acked) /\ Cardinality(acked) <= Cardinality(S)
  BY <1>1, FS_Subset DEF HistoryType
<1>3. seqOf \in Surjection(acked, Filled)
  BY DEF Surjection, Filled
<1>4. IsFiniteSet(Filled) /\ Cardinality(Filled) <= Cardinality(acked)
  BY <1>2, <1>3, FS_Surjection
<1>5. PICK inserted : /\ IsFiniteSet(inserted)
                      /\ Cardinality(inserted) <= edits
                      /\ Filled \cup inserted = 0 .. n - 1
  BY DEF FilledUpTo
<1>6. n <= Cardinality(Filled) + Cardinality(inserted)
  <2>1. Cardinality(0 .. n - 1) = n
    BY FS_Interval
  <2>2. IsFiniteSet(Filled \cap inserted)
    BY <1>4, FS_Subset
  <2>3. /\ Cardinality(Filled) \in Nat
        /\ Cardinality(inserted) \in Nat
        /\ Cardinality(Filled \cap inserted) \in Nat
    BY <1>4, <1>5, <2>2, FS_CardinalityType
  <2>4. Cardinality(Filled \cup inserted)
          = Cardinality(Filled) + Cardinality(inserted) - Cardinality(Filled \cap inserted)
    BY <1>4, <1>5, FS_Union
  <2>5. Cardinality(Filled \cup inserted) = n
    BY <1>5, <2>1
  <2> QED
    BY <2>3, <2>4, <2>5
<1>7. /\ Cardinality(signed) \in Nat
      /\ Cardinality(Outside) \in Nat
      /\ Cardinality(S) \in Nat
      /\ Cardinality(acked) \in Nat
      /\ Cardinality(Filled) \in Nat
      /\ Cardinality(inserted) \in Nat
      /\ MaxSigned \in Nat
      /\ Cardinality(signed) <= MaxSigned
  BY <1>1, <1>2, <1>4, <1>5, FS_CardinalityType, StoreAssumption DEF HistoryType
<1>8. edits \in Nat /\ edits <= MaxFaults /\ MaxFaults \in Nat
  BY StoreAssumption DEF FaultType
<1> HIDE DEF S
<1> QED
  BY <1>1, <1>2, <1>4, <1>5, <1>6, <1>7, <1>8

LEMMA ReportsAreOutcomes ==
  /\ \A o \in Report : o.items \in Nat /\ o.items <= MaxItems /\ o \in Outcome
  /\ Seq(Report) \subseteq Seq(Outcome)
<1>1. ASSUME NEW o \in Report
      PROVE  o.items \in Nat /\ o.items <= MaxItems /\ o \in Outcome
  <2>1. o \in [ok : BOOLEAN, items : 0 .. MaxItems]
    BY DEF Report
  <2>2. o.items \in 0 .. MaxItems
    BY <2>1
  <2>3. o.items \in Nat /\ o.items <= MaxItems
    BY <2>2, MaxItemsType
  <2> QED
    BY <2>1, <2>3 DEF Outcome
<1>2. Report \subseteq Outcome
  BY <1>1
<1> QED
  BY <1>1, <1>2

LEMMA ItemsNumbers ==
  ASSUME NEW done \in Seq(Report)
  PROVE  /\ IsFiniteSet(1 .. Len(done))
         /\ Numbers(Items(done), 1 .. Len(done))
         /\ ItemsTotal(done) \in Nat
<1>1. IsFiniteSet(1 .. Len(done))
  BY FS_Interval
<1>2. \A n \in 1 .. Len(done) : done[n].items \in Nat
  BY ReportsAreOutcomes
<1>3. Numbers(Items(done), 1 .. Len(done))
  BY <1>2 DEF Numbers, Items
<1> QED
  BY <1>1, <1>3, SumType DEF ItemsTotal

\* One more report adds its items to the total, if it is a success.
LEMMA ItemsOneMore ==
  ASSUME NEW done \in Seq(Report), NEW o \in Report
  PROVE  ItemsTotal(Append(done, o)) = ItemsTotal(done) + (IF o.ok THEN o.items ELSE 0)
<1> DEFINE longer == Append(done, o)
           k == Len(done)
<1>1. longer \in Seq(Report) /\ Len(longer) = k + 1 /\ k \in Nat
  OBVIOUS
<1>2. (\A n \in 1 .. k : longer[n] = done[n]) /\ longer[k + 1] = o
  BY AppendProperties
<1> HIDE DEF longer
<1>3. /\ \A n \in 1 .. k : Items(longer)[n] = Items(done)[n]
      /\ Items(longer)[k + 1] = IF o.ok THEN o.items ELSE 0
  BY <1>1, <1>2 DEF Items
<1>4. ItemsTotal(longer) = Items(longer)[k + 1] + SumFunctionOnSet(Items(longer), (1 .. k + 1) \ {k + 1})
  <2>1. IsFiniteSet(1 .. k + 1) /\ Numbers(Items(longer), 1 .. k + 1)
    BY <1>1, ItemsNumbers
  <2>2. k + 1 \in 1 .. k + 1
    BY <1>1
  <2> QED
    BY <1>1, <2>1, <2>2, SumAdd DEF ItemsTotal
<1>5. (1 .. k + 1) \ {k + 1} = 1 .. k
  BY <1>1
<1>6. SumFunctionOnSet(Items(longer), 1 .. k) = SumFunctionOnSet(Items(done), 1 .. k)
  BY <1>3, ItemsNumbers, SumSame
<1>7. ItemsTotal(done) \in Nat /\ (IF o.ok THEN o.items ELSE 0) \in Nat
  BY ItemsNumbers, ReportsAreOutcomes
<1>8. ItemsTotal(done) = SumFunctionOnSet(Items(done), 1 .. k)
  BY DEF ItemsTotal
<1>9. ItemsTotal(longer) = (IF o.ok THEN o.items ELSE 0) + ItemsTotal(done)
  BY <1>3, <1>4, <1>5, <1>6, <1>8
<1> HIDE DEF k
<1> QED
  BY <1>7, <1>9 DEF longer

\* What is reported of a whole pass is an action.
LEMMA SummaryIsAction ==
  ASSUME NEW kind \in {"light", "deep"}, NEW done \in Seq(Report),
         Len(done) = Members, ItemsTotal(done) <= Len(done) * MaxItems
  PROVE  Summary(kind, done) \in SleepAction
<1>1. FailedCount(done) \in 0 .. Members
  <2> DEFINE F == {n \in 1 .. Len(done) : ~done[n].ok}
  <2>1. IsFiniteSet(1 .. Len(done)) /\ Cardinality(1 .. Len(done)) = Members
    BY FS_Interval
  <2>2. Cardinality(F) <= Members
    BY <2>1, FS_Subset
  <2>3. FailedCount(done) \in Nat /\ FailedCount(done) = Cardinality(F)
    BY FailedType, ReportsAreOutcomes DEF FailedCount
  <2> QED
    BY <2>2, <2>3, SleepAssumption
<1>2. ItemsTotal(done) \in 0 .. Members * MaxItems
  <2>1. ItemsTotal(done) <= Members * MaxItems
    OBVIOUS
  <2>2. ItemsTotal(done) \in Nat
    BY ItemsNumbers
  <2>3. PICK b : b = Members * MaxItems
    OBVIOUS
  <2>4. b \in Nat
    BY <2>3, MaxItemsType, SleepAssumption
  <2> QED
    BY <2>1, <2>2, <2>3, <2>4
<1> QED
  BY <1>1, <1>2 DEF Summary, SleepAction
\* No more rows are there than positions were ever filled.
LEMMA PositionsCounted ==
  ASSUME NEW n \in Nat, FilledUpTo(n)
  PROVE  Cardinality(Positions) \in 0 .. n
<1>1. IsFiniteSet(0 .. n - 1) /\ Cardinality(0 .. n - 1) = n
  BY FS_Interval
<1>2. Positions \subseteq 0 .. n - 1
  BY DEF FilledUpTo
<1>3. IsFiniteSet(Positions) /\ Cardinality(Positions) <= n
  BY <1>1, <1>2, FS_Subset
<1> QED
  BY <1>3, FS_CardinalityType

LEMMA FilledKept ==
  ASSUME TypeInv, UNCHANGED <<acked, edits>>, Positions' \subseteq Positions,
         \A q \in Process : len'[q] \in {len[q], 0, Cardinality(Positions)}
  PROVE  \E n \in Nat : FilledUpTo(n)'
<1>1. PICK n \in Nat : FilledUpTo(n)
  BY DEF TypeInv
<1>2. Positions' \subseteq 0 .. n - 1 /\ \A q \in Process : len[q] \in 0 .. n
  BY <1>1 DEF FilledUpTo
<1>3. Cardinality(Positions) \in 0 .. n
  BY <1>1, PositionsCounted
<1>4. Filled' = Filled
  BY DEF Filled
<1>5. \A q \in Process : len'[q] \in 0 .. n
  BY <1>2, <1>3
<1>6. FilledUpTo(n)'
  BY <1>1, <1>2, <1>4, <1>5 DEF FilledUpTo
<1> QED
  BY <1>6

\* An edit may fill one position more.
LEMMA FilledEdited ==
  ASSUME TypeInv, FaultType, UNCHANGED <<acked, len>>, edits' = edits + 1,
         NEW i \in 0 .. Cardinality(Positions), Positions' \subseteq Positions \cup {i}
  PROVE  \E n \in Nat : FilledUpTo(n)'
<1>1. PICK n \in Nat : FilledUpTo(n)
  BY DEF TypeInv
<1>2. PICK inserted : /\ IsFiniteSet(inserted)
                      /\ Cardinality(inserted) <= edits
                      /\ Filled \cup inserted = 0 .. n - 1
  BY <1>1 DEF FilledUpTo
<1>3. i \in 0 .. n
  BY <1>1, PositionsCounted
<1>4. PICK m \in Nat : m = IF i = n THEN n + 1 ELSE n
  BY <1>1
<1>5. (0 .. n - 1) \cup {i} = 0 .. m - 1
  BY <1>3, <1>4
<1>6. PICK more : more = inserted \cup {i}
  OBVIOUS
<1>7. Filled' \cup more = 0 .. m - 1
  BY <1>2, <1>5, <1>6 DEF Filled
<1>8. IsFiniteSet(more) /\ Cardinality(more) <= edits'
  <2>1. Cardinality(inserted) \in Nat /\ edits \in Nat
    BY <1>2, FS_CardinalityType DEF FaultType
  <2> QED
    BY <1>2, <1>6, <2>1, FS_AddElement
<1>9. Positions' \subseteq 0 .. m - 1
  BY <1>1, <1>5 DEF FilledUpTo
<1>10. \A q \in Process : len'[q] \in 0 .. m
  BY <1>1, <1>4 DEF FilledUpTo
<1>11. FilledUpTo(m)'
  BY <1>7, <1>8, <1>9, <1>10 DEF FilledUpTo
<1> QED
  BY <1>11

\* The passes, when p's is at most abandoned or reported.
LEMMA PassKept ==
  ASSUME PassType, NEW p \in Process,
         UNCHANGED pass \/ pass' = [pass EXCEPT ![p] = None]
  PROVE  PassType'
BY DEF PassType, ItemsTotal, Items

LEMMA MemberTyped ==
  ASSUME PassType, NEW p \in Process, NEW kind, NEW o \in Report, MemberRuns(p, kind, o)
  PROVE  PassType'
<1>1. /\ pass[p] # None
      /\ Len(pass[p].done) < Members
      /\ pass' = [pass EXCEPT ![p].done = Append(@, o)]
  BY DEF MemberRuns
<1>2. PICK q \in [kind : {"light", "deep"}, done : Seq(Report)] : pass[p] = q
  BY <1>1 DEF PassType
<1> DEFINE longer == Append(q.done, o)
<1>3. longer \in Seq(Report) /\ Len(longer) = Len(q.done) + 1
  BY <1>2
<1>4. ItemsTotal(longer) <= Len(longer) * MaxItems
  <2>1. ItemsTotal(longer) = ItemsTotal(q.done) + (IF o.ok THEN o.items ELSE 0)
    BY <1>2, ItemsOneMore
  <2>2. (IF o.ok THEN o.items ELSE 0) \in 0 .. MaxItems
    BY ReportsAreOutcomes, MaxItemsType
  <2>3. ItemsTotal(q.done) \in Nat /\ ItemsTotal(q.done) <= Len(q.done) * MaxItems
    BY <1>1, <1>2, ItemsNumbers DEF PassType
  <2>4. PICK k \in Nat : k = Len(q.done)
    BY <1>2
  <2>5. (k + 1) * MaxItems = k * MaxItems + MaxItems
    BY MaxItemsType
  <2>6. PICK b : b = k * MaxItems
    OBVIOUS
  <2>7. b \in Nat
    BY <2>6, MaxItemsType
  <2> HIDE DEF longer
  <2> QED
    BY <1>3, <2>1, <2>2, <2>3, <2>4, <2>5, <2>6, <2>7, MaxItemsType
<1>5. pass'[p] = [kind |-> q.kind, done |-> longer] /\ \A r \in Process : r # p => pass'[r] = pass[r]
  BY <1>1, <1>2 DEF PassType
<1>6. Len(longer) <= Members
  BY <1>1, <1>2, <1>3, SleepAssumption
<1> HIDE DEF longer
<1>7. pass' \in [Process -> {None} \cup [kind : {"light", "deep"}, done : Seq(Report)]]
  BY <1>1, <1>2, <1>3, <1>5 DEF PassType
<1>8. ASSUME NEW r \in Process, pass'[r] # None
      PROVE  Len(pass'[r].done) <= Members /\ ItemsTotal(pass'[r].done) <= Len(pass'[r].done) * MaxItems
  <2>1. CASE r = p
    <3>1. pass'[r].done = longer
      BY <1>5, <2>1
    <3> QED
      BY <1>4, <1>6, <3>1
  <2>2. CASE r # p
    BY <1>5, <1>8, <2>2 DEF PassType
  <2> QED
    BY <2>1, <2>2
<1> QED
  BY <1>7, <1>8 DEF PassType, ItemsTotal, Items

LEMMA InitTyped == SInit => TypeInv
<1> SUFFICES ASSUME SInit PROVE TypeInv
  OBVIOUS
<1> USE DEF SInit, Init
<1>1. Genesis \in KernelState /\ ZeroDigest \in Digest
  BY DEF Genesis, KernelState, ZeroDigest, Digest
<1>2. MemoryType
  BY <1>1 DEF MemoryType, Step
<1>3. TableType(rows)
  BY FS_EmptySet DEF TableType
<1>4. HistoryType
  BY FS_EmptySet, StoreAssumption DEF HistoryType
<1>5. FilledUpTo(0)
  <2>1. IsFiniteSet({}) /\ Cardinality({}) = 0
    BY FS_EmptySet
  <2>2. Filled \cup {} = 0 .. 0 - 1 /\ Positions = {}
    BY DEF Filled, Positions
  <2> QED
    BY <2>1, <2>2 DEF FilledUpTo
<1>6. PassType
  BY DEF PassType
<1> QED
  BY <1>2, <1>3, <1>4, <1>5, <1>6 DEF TypeInv

LEMMA AwakeTyped ==
  ASSUME TypeInv, StoreInv, NEW p \in Process, Awake(p)
  PROVE  TypeInv'
<1>1. PassType'
  BY PassKept DEF Awake, TypeInv
<1>2. CASE Open(p)
  <2>1. /\ MemoryType'
        /\ UNCHANGED <<rows, signed, acked>>
        /\ \A q \in Process : len'[q] \in {len[q], 0, Cardinality(Positions)}
        /\ held' \in [Process -> signed \cup Outside \cup {None}]
    BY <1>2, OpenTyped
  <2>2. edits' = edits
    BY <1>2, OpenQuiet DEF TypeInv, MemoryType
  <2>3. \E n \in Nat : FilledUpTo(n)'
    BY <2>1, <2>2, FilledKept DEF Positions
  <2>4. HistoryType'
    BY <2>1 DEF TypeInv, HistoryType
  <2>5. TableType(rows)'
    BY <2>1 DEF TypeInv, TableType
  <2> QED
    BY <1>1, <2>1, <2>3, <2>4, <2>5 DEF TypeInv
<1>3. CASE \E a \in Work : SignAction(p, a)
  <2>1. PICK a \in Action : SignAction(p, a)
    BY <1>3, StoreAssumption
  <2>2. MemoryType' /\ HistoryType' /\ UNCHANGED <<rows, acked, len, edits>>
    BY <2>1, SignTyped, SignedActions
  <2>3. \E n \in Nat : FilledUpTo(n)'
    BY <2>2, FilledKept DEF Positions
  <2>4. TableType(rows)'
    BY <2>2 DEF TypeInv, TableType
  <2> QED
    BY <1>1, <2>2, <2>3, <2>4 DEF TypeInv
<1>4. CASE Offer(p) \/ AppendFails(p) \/ InsertFails(p)
  <2>1. UNCHANGED <<meta, rows, step, absent, mode, key, build, len, leaf, kernel, signed, acked,
                    edits>>
    BY <1>4 DEF Offer, AppendFails, InsertFails, database, session, cache, history
  <2>2. held' \in [Process -> signed \cup Outside \cup {None}]
    BY <1>4, StoreAssumption DEF Offer, AppendFails, InsertFails, TypeInv, HistoryType
  <2>3. MemoryType' /\ HistoryType'
    BY <2>1, <2>2 DEF TypeInv, MemoryType, HistoryType
  <2>4. \E n \in Nat : FilledUpTo(n)'
    BY <2>1, FilledKept DEF Positions
  <2>5. TableType(rows)'
    BY <2>1 DEF TypeInv, TableType
  <2> QED
    BY <1>1, <2>3, <2>4, <2>5 DEF TypeInv
<1>5. CASE AppendRow(p)
  BY <1>1, <1>5, AppendTyped DEF TypeInv
<1> QED
  BY <1>2, <1>3, <1>4, <1>5 DEF Awake, Serve
\* Nothing but the pass changes.
LEMMA OnlyPass ==
  ASSUME TypeInv, PassType',
         UNCHANGED <<meta, rows, step, absent, mode, key, build, len, leaf, kernel, held,
                     signed, acked, edits>>
  PROVE  TypeInv'
<1>1. \E n \in Nat : FilledUpTo(n)'
  BY FilledKept DEF Positions
<1> QED
  BY <1>1 DEF TypeInv, MemoryType, HistoryType, TableType

LEMMA AsleepTyped ==
  ASSUME TypeInv, FaultType, StoreInv, NEW p \in Process, Asleep(p)
  PROVE  TypeInv'
<1> USE DEF vars, database, session, cache, history
<1>1. CASE BeginPass(p)
  <2>1. PICK kind \in {"light", "deep"} :
          pass' = [pass EXCEPT ![p] = [kind |-> kind, done |-> << >>]]
    BY <1>1 DEF BeginPass
  <2>2. << >> \in Seq(Report) /\ Len(<< >>) = 0 /\ 0 <= Members /\ 0 <= 0 * MaxItems
    BY SleepAssumption, MaxItemsType
  <2>3. ItemsTotal(<< >>) = 0
    <3>1. 1 .. Len(<< >>) = {}
      OBVIOUS
    <3> QED
      BY <3>1, SumEmpty DEF ItemsTotal
  <2>4. PICK q : q = [kind |-> kind, done |-> << >>]
    OBVIOUS
  <2>5. Len(q.done) <= Members /\ ItemsTotal(q.done) <= Len(q.done) * MaxItems
    BY <2>2, <2>3, <2>4
  <2>6. PassType'
    <3>1. q \in [kind : {"light", "deep"}, done : Seq(Report)]
      BY <2>2, <2>4
    <3>2. pass' = [pass EXCEPT ![p] = q]
      BY <2>1, <2>4
    <3> QED
      BY <2>5, <3>1, <3>2 DEF TypeInv, PassType, ItemsTotal, Items
  <2> QED
    BY <1>1, <2>6, OnlyPass DEF BeginPass
<1>2. CASE Clean(p)
  <2>1. PICK o \in {Failed} \cup {Succeeded(n) : n \in 0 .. MaxCleaned} :
          MemberRuns(p, "light", o)
    BY <1>2 DEF Clean
  <2>2. o \in Report
    <3>1. 0 \in 0 .. MaxItems /\ \A n \in 0 .. MaxCleaned : n \in 0 .. MaxItems
      BY StoreAssumption, SleepAssumption, MaxItemsType DEF MaxItems
    <3>2. Failed \in Report
      BY <3>1 DEF Failed, Report
    <3>3. \A n \in 0 .. MaxCleaned : Succeeded(n) \in Report
      BY <3>1 DEF Succeeded, Report
    <3> QED
      BY <2>1, <3>2, <3>3
  <2>3. PassType'
    BY <2>1, <2>2, MemberTyped DEF TypeInv
  <2> QED
    BY <1>2, <2>3, OnlyPass DEF Clean
<1>3. CASE Walk(p)
  <2>1. PICK n \in Nat : FilledUpTo(n)
    BY DEF TypeInv
  <2>2. len[p] \in 0 .. MaxItems /\ 0 \in 0 .. MaxItems
    <3>1. n <= MaxSigned + Cardinality(Outside) + MaxFaults /\ len[p] \in 0 .. n
      BY <2>1, FilledBounded DEF TypeInv, FilledUpTo
    <3> QED
      BY <3>1, StoreAssumption, SleepAssumption, MaxItemsType DEF MaxItems
  <2>3. WalkOutcome(p) \in Report
    BY <2>2 DEF WalkOutcome, Failed, Succeeded, Report
  <2>4. PassType'
    BY <1>3, <2>3, MemberTyped DEF Walk, TypeInv
  <2> QED
    BY <1>3, <2>4, OnlyPass DEF Walk
<1>4. CASE WalkUnread(p)
  <2>1. Failed \in Report
    BY MaxItemsType DEF Failed, Report
  <2>2. PassType'
    BY <1>4, <2>1, MemberTyped DEF WalkUnread, TypeInv
  <2> QED
    BY <1>4, <2>2, OnlyPass DEF WalkUnread
<1>5. CASE ReportPass(p)
  <2>1. PICK a : a = Summary(pass[p].kind, pass[p].done)
    OBVIOUS
  <2>2. a \in Action
    <3>1. /\ pass[p] \in [kind : {"light", "deep"}, done : Seq(Report)]
          /\ Len(pass[p].done) = Members
          /\ ItemsTotal(pass[p].done) <= Len(pass[p].done) * MaxItems
      BY <1>5 DEF ReportPass, TypeInv, PassType
    <3>2. pass[p].kind \in {"light", "deep"} /\ pass[p].done \in Seq(Report)
      BY <3>1
    <3>3. a \in SleepAction
      BY <2>1, <3>1, <3>2, SummaryIsAction
    <3> QED
      BY <3>3, SleepAssumption
  <2>3. SignAction(p, a)
    BY <1>5, <2>1 DEF ReportPass
  <2>4. MemoryType' /\ HistoryType' /\ UNCHANGED <<rows, acked, len, edits>>
    BY <2>2, <2>3, SignTyped, SignedActions
  <2>5. \E n \in Nat : FilledUpTo(n)'
    BY <2>4, FilledKept DEF Positions
  <2>6. TableType(rows)'
    BY <2>4 DEF TypeInv, TableType
  <2>7. PassType'
    BY <1>5, PassKept DEF ReportPass, TypeInv
  <2> QED
    BY <2>4, <2>5, <2>6, <2>7 DEF TypeInv
<1> QED
  BY <1>1, <1>2, <1>3, <1>4, <1>5 DEF Asleep

LEMMA StepTyped == StoreInv /\ FaultType /\ TypeInv /\ [SNext]_svars => TypeInv'
<1> SUFFICES ASSUME StoreInv, FaultType, TypeInv, [SNext]_svars PROVE TypeInv'
  OBVIOUS
<1>1. ASSUME NEW p \in Process, Awake(p) \/ Asleep(p)
      PROVE  TypeInv'
  BY <1>1, AwakeTyped, AsleepTyped
<1>2. ASSUME NEW p \in Process, ExitAsleep(p)
      PROVE  TypeInv'
  <2>1. Stop(p) /\ pass' = [pass EXCEPT ![p] = None]
    BY <1>2 DEF ExitAsleep, Exit
  <2>2. Genesis \in KernelState /\ ZeroDigest \in Digest
    BY DEF Genesis, KernelState, ZeroDigest, Digest
  <2>3. MemoryType' /\ HistoryType' /\ UNCHANGED <<rows, acked, edits>>
    BY <2>1, <2>2 DEF Stop, TypeInv, MemoryType, HistoryType, database, history, Step
  <2>4. \A q \in Process : len'[q] \in {len[q], 0, Cardinality(Positions)}
    BY <2>1 DEF Stop, TypeInv, MemoryType
  <2>5. \E n \in Nat : FilledUpTo(n)'
    BY <2>3, <2>4, FilledKept DEF Positions
  <2>6. PassType' /\ TableType(rows)'
    BY <2>1, <2>3, PassKept DEF TypeInv, TableType
  <2> QED
    BY <2>3, <2>5, <2>6 DEF TypeInv
<1>3. CASE EditFile /\ UNCHANGED <<pass, passes>>
  <2>1. /\ TableType(rows)'
        /\ edits' = edits + 1
        /\ UNCHANGED <<meta, step, absent, mode, key, build, len, leaf, kernel, held, signed, acked>>
    BY <1>3, EditTyped, EditCounts
  <2>2. \E n \in Nat : FilledUpTo(n)'
    BY <1>3, <2>1, EditTyped, FilledEdited
  <2>3. PassType'
    BY <1>3, PassKept DEF TypeInv, PassType, ItemsTotal, Items
  <2>4. MemoryType' /\ HistoryType'
    BY <2>1 DEF TypeInv, MemoryType, HistoryType
  <2> QED
    BY <2>1, <2>2, <2>3, <2>4 DEF TypeInv
<1>4. CASE UNCHANGED svars
  <2>1. UNCHANGED <<meta, rows, step, absent, mode, key, build, len, leaf, kernel, held, signed, acked,
                    edits, pass>>
    BY <1>4 DEF svars, vars, database, session, cache, history
  <2> QED
    BY <2>1, OnlyPass DEF TypeInv, PassType, ItemsTotal, Items
<1> QED
  BY <1>1, <1>2, <1>3, <1>4 DEF SNext

THEOREM TypesHold == SSpec => []TypeInv
  BY InitTyped, StepTyped, FaultsCounted, StoreIsSound, PTL DEF SSpec

\* Every variable has its type, also in a file that was edited; in particular no
\* pass of sleep sums up to more than its members can have seen
\* (run_light_sleep, run_deep_sleep).
THEOREM StoreTypesHold == SSpec => []STypeOK
<1>1. TypeInv => STypeOK
  <2> SUFFICES ASSUME TypeInv PROVE STypeOK
    OBVIOUS
  <2>1. \A i \in Positions : i \in Nat /\ rows[i].blob \in Envelope \cup {None}
    BY DEF TypeInv, TableType, RowType, Positions
  <2>2. /\ held \in [Process -> Envelope \cup {None}]
        /\ signed \subseteq Envelope
        /\ acked \subseteq Envelope
    BY StoreAssumption DEF TypeInv, HistoryType
  <2>3. \A p \in Process : pass[p] # None => Len(pass[p].done) \in 0 .. Members
    BY SleepAssumption DEF TypeInv, PassType
  <2> QED
    BY <2>1, <2>2, <2>3 DEF TypeInv, MemoryType, STypeOK
<1> QED
  BY <1>1, TypesHold, PTL
-----------------------------------------------------------------------------
(* An edited file.                                                         *)

\* Nobody but its issuer makes a signature: a blob in the table is the stranger's, or it has
\* the signature of a receipt that was appended or that came from elsewhere, whatever it
\* now says.
TracedTo(b, known) ==
  \/ b.issuer = Stranger
  \/ \E a \in known \cup Outside : b.sig = a.sig

SignatureInv ==
  /\ \A a \in acked : a.issuer \in Key /\ a.sig = [by |-> a.issuer, over |-> a.body]
  /\ \A i \in Positions : rows[i].blob # None => TracedTo(rows[i].blob, acked)

\* Rows come and change in two ways.
LEMMA TableSteps ==
  ASSUME [SNext]_svars
  PROVE  UNCHANGED <<rows, acked>> \/ EditFile \/ \E p \in Process : AppendRow(p)
<1> USE DEF database, history
<1>1. ASSUME NEW p \in Process, Open(p)
      PROVE  UNCHANGED <<rows, acked>>
  BY <1>1 DEF Open, Start, Peek, PeekRefused, PinAgrees, PinDiffers, PinMissing, InsertPin,
              InsertPinFails, Count, ReadHead, ReadHeadFails, Resume, ResumeUnread, ResumeWith, Stop
<1>2. ASSUME NEW p \in Process, Serve(p)
      PROVE  UNCHANGED <<rows, acked>> \/ AppendRow(p)
  BY <1>2 DEF Serve, SignAction, Offer, AppendFails, InsertFails
<1>3. ASSUME NEW p \in Process, Asleep(p)
      PROVE  UNCHANGED <<rows, acked>>
  BY <1>3 DEF Asleep, BeginPass, Clean, Walk, WalkUnread, ReportPass, SignAction, vars
<1>4. ASSUME NEW p \in Process, ExitAsleep(p)
      PROVE  UNCHANGED <<rows, acked>>
  BY <1>4 DEF ExitAsleep, Exit, Stop
<1>5. CASE UNCHANGED svars
  BY <1>5 DEF svars, vars
<1> QED
  BY <1>1, <1>2, <1>3, <1>4, <1>5 DEF SNext, Awake

LEMMA EditTraced ==
  ASSUME TypeInv, SignatureInv, EditFile
  PROVE  SignatureInv'
<1>1. UNCHANGED acked
  BY EditCounts
<1>3. \A j \in Positions : rows[j] \in RowType /\ (rows[j].blob # None => TracedTo(rows[j].blob, acked))
  BY DEF TypeInv, TableType, Positions, SignatureInv
<1>4. rows \in [Positions -> RowType]
  BY DEF TypeInv, TableType, Positions
<1> SUFFICES ASSUME NEW h \in Positions', rows'[h].blob # None
             PROVE  TracedTo(rows'[h].blob, acked)
  BY <1>1 DEF SignatureInv, TracedTo
<1>2. CASE \E i \in 0 .. Cardinality(Positions) : InsertRow(i)
  <2>0. PICK i \in 0 .. Cardinality(Positions) : InsertRow(i)
    BY <1>2
  <2>1. PICK r \in acked \cup Outside :
          rows' = [j \in Positions \cup {i} |-> IF j = i THEN Row(r) ELSE rows[j]]
    BY <2>0 DEF InsertRow, Edit
  <2>2. h = i \/ (h \in Positions /\ rows'[h] = rows[h])
    BY <2>1 DEF Positions
  <2>3. h = i => rows'[h].blob = r
    BY <2>1 DEF Row
  <2> QED
    BY <1>3, <2>2, <2>3 DEF TracedTo
<1> SUFFICES ASSUME NEW i \in Positions,
                    AlterBody(i) \/ AlterVersion(i) \/ DeleteRow(i) \/ Garble(i) \/ Reissue(i)
                      \/ \E j \in Positions : i < j /\ SwapBodies(i, j)
             PROVE  TracedTo(rows'[h].blob, acked)
  BY <1>2 DEF EditFile
<1>5. h \in Positions
  BY RowsEdited
<1>11. CASE AlterVersion(i)
  <2>1. PICK v \in Format :
          /\ rows[i].blob # None
          /\ rows' = WithBlob(i, [rows[i].blob EXCEPT !.version = v])
    BY <1>11 DEF AlterVersion, Edit
  <2>2. rows[i].blob \in Envelope
    BY <1>3, <2>1 DEF RowType
  <2>3. PICK b : b = [rows[i].blob EXCEPT !.version = v]
    OBVIOUS
  <2>4. b.issuer = rows[i].blob.issuer /\ b.sig = rows[i].blob.sig
    BY <2>2, <2>3 DEF Envelope
  <2>5. rows'[h].blob = IF h = i THEN b ELSE rows[h].blob
    BY <1>3, <1>4, <1>5, <2>1, <2>3 DEF WithBlob, RowType
  <2> QED
    BY <1>3, <1>5, <2>1, <2>4, <2>5 DEF TracedTo
<1>6. CASE AlterBody(i)
  <2>1. PICK rs \in SUBSET Rule :
          /\ rows[i].blob # None
          /\ rows' = WithBlob(i, [rows[i].blob EXCEPT !.body.rules = rs])
    BY <1>6 DEF AlterBody, Edit
  <2>2. rows[i].blob \in Envelope
    BY <1>3, <2>1 DEF RowType
  <2>3. PICK b : b = [rows[i].blob EXCEPT !.body.rules = rs]
    OBVIOUS
  <2>4. b.issuer = rows[i].blob.issuer /\ b.sig = rows[i].blob.sig
    BY <2>2, <2>3 DEF Envelope
  <2>5. rows'[h].blob = IF h = i THEN b ELSE rows[h].blob
    BY <1>3, <1>4, <1>5, <2>1, <2>3 DEF WithBlob, RowType
  <2> QED
    BY <1>3, <1>5, <2>1, <2>4, <2>5 DEF TracedTo
<1>7. CASE DeleteRow(i)
  <2>1. rows'[h] = rows[h]
    BY <1>7 DEF DeleteRow, Edit, Positions
  <2> QED
    BY <1>3, <1>5, <2>1
<1>8. CASE Garble(i)
  <2>1. rows'[h].blob = IF h = i THEN None ELSE rows[h].blob
    BY <1>3, <1>4, <1>5, <1>8 DEF Garble, Edit, WithBlob, RowType
  <2> QED
    BY <1>3, <1>5, <2>1
<1>9. CASE Reissue(i)
  <2>1. PICK body :
          rows' = [rows EXCEPT ![i] = Row(Sign(rows[i].blob.version, Stranger, body))]
    BY <1>9 DEF Reissue, Edit
  <2>2. h = i => rows'[h].blob.issuer = Stranger
    BY <1>4, <1>5, <2>1 DEF Row, Sign
  <2>3. h # i => rows'[h] = rows[h]
    BY <1>4, <1>5, <2>1
  <2> QED
    BY <1>3, <1>5, <2>2, <2>3 DEF TracedTo
<1>10. ASSUME NEW j \in Positions, i < j, SwapBodies(i, j)
       PROVE  TracedTo(rows'[h].blob, acked)
  <2>1. rows' = [rows EXCEPT ![i].blob = rows[j].blob, ![j].blob = rows[i].blob]
    BY <1>10 DEF SwapBodies, Edit
  <2>2. rows'[h].blob \in {rows[h].blob, rows[i].blob, rows[j].blob}
    BY <1>3, <1>4, <1>5, <2>1 DEF RowType
  <2> QED
    BY <1>3, <1>5, <2>2
<1> QED
  BY <1>6, <1>7, <1>8, <1>9, <1>10, <1>11

LEMMA AppendTraced ==
  ASSUME StoreInv, TypeInv, SignatureInv, NEW p \in Process, AppendRow(p)
  PROVE  SignatureInv'
<1>1. PICK r : r = held[p]
  OBVIOUS
<1>2. /\ step[p] = "serve"
      /\ r.issuer = key[p]
      /\ r.sig = [by |-> r.issuer, over |-> r.body]
      /\ rows' = [i \in Positions \cup {r.body.seq} |->
                    IF i = r.body.seq THEN Row(r) ELSE rows[i]]
      /\ acked' = acked \cup {r}
  BY <1>1 DEF AppendRow, Writer, Extends, Verifies
<1>3. key[p] \in Key
  BY <1>2 DEF StoreInv, SessionInv
<1>4. ASSUME NEW i \in Positions', rows'[i].blob # None
      PROVE  TracedTo(rows'[i].blob, acked')
  BY <1>2, <1>4 DEF SignatureInv, TracedTo, Positions, Row
<1> QED
  BY <1>2, <1>3, <1>4 DEF SignatureInv

\* However often the file was edited, and whatever rows were put in: what the walk of
\* verify_chain lets pass as a receipt of the pinned issuer has, bit for bit, a body that this
\* issuer signed, for a receipt that append took here or for one of another log of the key.
\* The version beside the body may be another one (verify_chain, crypto::verify).
THEOREM VerifiedIsSigned == SSpec => []VerifiedRowsAreSigned
<1>1. SInit => SignatureInv
  BY DEF SInit, Init, SignatureInv, Positions
<1>2. StoreInv /\ TypeInv /\ SignatureInv /\ [SNext]_svars => SignatureInv'
  <2> SUFFICES ASSUME StoreInv, TypeInv, SignatureInv, [SNext]_svars PROVE SignatureInv'
    OBVIOUS
  <2>1. CASE UNCHANGED <<rows, acked>>
    BY <2>1 DEF SignatureInv, TracedTo, Positions
  <2> QED
    BY <2>1, TableSteps, EditTraced, AppendTraced
<1>3. StoreInv /\ TypeInv /\ SignatureInv => VerifiedRowsAreSigned
  <2> SUFFICES ASSUME StoreInv, TypeInv, SignatureInv,
                      NEW p \in Process, step[p] \in Opened, AllRowsVerify(build[p]),
                      NEW i \in Positions, rows[i].blob.issuer = meta["issuer"]
               PROVE  rows[i].blob.body \in SignedBodies(meta["issuer"])
    BY DEF VerifiedRowsAreSigned
  <2>1. PICK b : b = rows[i].blob
    OBVIOUS
  <2>2. b # None /\ b.sig = [by |-> b.issuer, over |-> b.body]
    BY <2>1 DEF AllRowsVerify, RowVerifies, Verifies
  <2>3. b.issuer # Stranger
    BY <2>1, StoreAssumption DEF StoreInv, SessionInv, Opened
  <2>4. PICK a \in acked \cup Outside : b.sig = a.sig
    BY <2>1, <2>2, <2>3 DEF SignatureInv, TracedTo
  <2>5. a.sig.by = meta["issuer"] /\ a.sig.over = b.body
    BY <2>1, <2>2, <2>4
  <2> QED
    BY <2>1, <2>4, <2>5 DEF SignedBodies
<1> QED
  BY <1>1, <1>2, <1>3, StoreIsSound, TypesHold, PTL DEF SSpec
-----------------------------------------------------------------------------
(* What the clients see.                                                   *)

\* Until an edit the table holds what was appended, each row under its content id.
ServedInv ==
  edits = 0 =>
    /\ \A i \in Positions : rows[i].id = rows[i].blob.body /\ rows[i].blob \in acked
    /\ \A a \in acked : \E i \in Positions : rows[i].blob = a

LEMMA EditsCounted ==
  ASSUME StoreInv, [SNext]_svars, edits' = 0
  PROVE  edits = 0 /\ ~EditFile
<1>1. CASE Quiet
  BY <1>1, EditSteps DEF Quiet, EditStep, StoreInv, StoreType
<1>2. CASE EditStep
  BY <1>2 DEF EditStep, StoreInv, StoreType
<1>3. ASSUME NEW p \in Process, ProcessStep(p)
      PROVE  edits' = edits
  BY <1>3 DEF ProcessStep, StartStep, PeekStep, StopStep, PinStep, CountStep, HeadStep, ResumeStep,
              AppendStep
<1> QED
  BY <1>1, <1>2, <1>3, StepsSummarized, EditSteps DEF StoreInv, StoreType, EditStep

LEMMA ServedStep ==
  ASSUME StoreInv, ServedInv, [SNext]_svars
  PROVE  ServedInv'
<1> SUFFICES ASSUME edits' = 0 PROVE ServedInv'
  BY DEF ServedInv
<1>1. edits = 0 /\ ~EditFile
  BY EditsCounted
<1>2. CASE UNCHANGED <<rows, acked>>
  BY <1>1, <1>2 DEF ServedInv, Positions
<1>3. ASSUME NEW p \in Process, AppendRow(p)
      PROVE  ServedInv'
  <2>1. PICK r : r = held[p]
    OBVIOUS
  <2>2. /\ rows' = [i \in Positions \cup {r.body.seq} |->
                      IF i = r.body.seq THEN Row(r) ELSE rows[i]]
        /\ acked' = acked \cup {r}
        /\ r.body.seq \notin Positions
    BY <1>3, <2>1 DEF AppendRow, Insertable
  <2>3. Positions' = Positions \cup {r.body.seq}
    BY <2>2 DEF Positions
  <2>4. rows'[r.body.seq] = Row(r) /\ \A i \in Positions : rows'[i] = rows[i]
    BY <2>2
  <2>5. \A i \in Positions' : rows'[i].id = rows'[i].blob.body /\ rows'[i].blob \in acked'
    BY <1>1, <2>2, <2>3, <2>4 DEF ServedInv, Row
  <2>6. \A a \in acked' : \E i \in Positions' : rows'[i].blob = a
    BY <1>1, <2>2, <2>3, <2>4 DEF ServedInv, Row
  <2> QED
    BY <2>5, <2>6 DEF ServedInv
<1> QED
  BY <1>1, <1>2, <1>3, TableSteps

\* A receipt that was appended is found by its content id.
LEMMA ServesAppended ==
  ASSUME StoreInv, TypeInv, ServedInv, edits = 0, NEW r \in acked
  PROVE  Served(r) = Received(r) /\ Received(r).receipt = r
<1>1. PICK n \in Nat : Extent(n)
  BY DEF StoreInv, ChainInv
<1>2. \A i \in Positions : rows[i].blob.body.seq = i
  BY <1>1 DEF Extent, RowSound
<1>3. PICK i \in Positions : rows[i].blob = r
  BY DEF ServedInv
<1>4. r \in Envelope
  BY StoreAssumption DEF TypeInv, HistoryType
<1>5. {j \in Positions : rows[j].id = r.body} = {i}
  BY <1>2, <1>3 DEF ServedInv
<1>6. Stored(r.body, TRUE) = r
  BY <1>3, <1>5 DEF Stored
<1>7. None # r.body /\ r # None
  BY <1>4, EnvelopeParts, ClientAssumption
<1> QED
  BY <1>6, <1>7 DEF Served, GetReceipt, Received

\* The clients make sense of what the host answers.
LEMMA ClientsAccept ==
  ASSUME NEW r \in Envelope, r.sig = [by |-> r.issuer, over |-> r.body], NEW lang \in Language,
         NEW kinds, r.body.decision \in kinds
  PROVE  /\ Expecting(kinds, lang, Answered(r), Received(r), TRUE) = Decided(r.body.decision, r.body, r.body)
         /\ TsVerifyReceiptUrl(Received(r)) = [ok |-> TRUE, content_id |-> r.body]
<1> DEFINE d == Decided(r.body.decision, r.body, r.body)
<1>1. PICK post : post = Answered(r)
  OBVIOUS
<1>2. PICK get : get = Received(r)
  OBVIOUS
<1>3. /\ r.body.decision \in Decision /\ r.body \in Receipt /\ r.issuer \in Signer
      /\ r.body.seq \in Nat /\ r.version \in Format
  BY EnvelopeParts DEF Receipt
<1>4. Reply(r) \in ReceiptResponse
  BY <1>3 DEF Reply, ReceiptResponse
<1>5. /\ Reply(r) \notin {Unreadable, Misshapen}
      /\ r \notin {Unreadable, Misshapen}
      /\ post # None /\ get # None
  <2>1. post \in [status : Nat, body : ReceiptResponse \cup ErrorBody] /\ get \in [status : Nat, receipt : Envelope]
    BY <1>1, <1>2, <1>4 DEF Answered, Received
  <2> QED
    BY <1>4, <2>1, ClientAssumption
<1>6. post.status = 200 /\ post.body = Reply(r) /\ get.status = 200 /\ get.receipt = r
  BY <1>1, <1>2 DEF Answered, Received
<1>7. /\ DOMAIN Reply(r) = Field
      /\ Reply(r).decision = r.body.decision
      /\ Reply(r).content_id = r.body
      /\ Reply(r).receipt_url = r.body
  BY DEF Reply, Field
<1>8. ~IsRaised(Reply(r))
  BY <1>7 DEF IsRaised, Field
<1>9. Posted(lang, post) = d
  <2>1. PyPost(post) = Reply(r) /\ TsPost(post) = Reply(r)
    BY <1>5, <1>6 DEF PyPost, TsPost
  <2>2. PyBuildDecision(Reply(r)) = d
    BY <1>3, <1>7 DEF PyBuildDecision
  <2>3. TsBuildDecision(Reply(r)) = d
    BY <1>3, <1>7 DEF TsBuildDecision, Field
  <2> QED
    BY <1>8, <2>1, <2>2, <2>3 DEF Posted
<1>10. ~IsRaised(d) /\ d.kind \in kinds /\ d.content_id = r.body
  BY <1>3 DEF IsRaised, Decided
<1>11. VerifyJson(r) = [ok |-> TRUE, content_id |-> r.body]
  BY <1>5 DEF VerifyJson, VerifyReceipt
<1>12. Verified(lang, get) = [ok |-> TRUE, content_id |-> r.body]
  BY <1>5, <1>6, <1>11 DEF Verified, PyVerifyReceiptUrl, TsClientVerifyReceiptUrl
<1> HIDE DEF d
<1>13. MaybeVerify(lang, d, get) = d
  BY <1>10, <1>12 DEF MaybeVerify, IsRaised
<1>14. Expecting(kinds, lang, post, get, TRUE) = d
  BY <1>9, <1>10, <1>13 DEF Expecting
<1>15. TsVerifyReceiptUrl(get) = [ok |-> TRUE, content_id |-> r.body]
  BY <1>5, <1>6, <1>11 DEF TsVerifyReceiptUrl
<1> QED
  BY <1>1, <1>2, <1>14, <1>15, Zenon DEF d

\* A receipt that is not found is an error to both clients, whatever the answer said.
LEMMA NotFetched ==
  ASSUME NEW r \in Envelope, NEW lang \in Language
  PROVE  IsRaised(Evaluate(lang, Answered(r), GetReceipt(r.body, None, FALSE), TRUE))
<1>1. PICK get : get = GetReceipt(r.body, None, FALSE)
  OBVIOUS
<1>2. r.body # None
  BY EnvelopeParts, ClientAssumption
<1>3. get.status = 404
  BY <1>1, <1>2 DEF GetReceipt, Stored
<1>4. \A e : IsRaised(Raised(e))
  BY DEF IsRaised, Raised
<1>5. IsRaised(Verified(lang, get))
  BY <1>3, <1>4 DEF Verified, PyVerifyReceiptUrl, TsClientVerifyReceiptUrl
<1>6. \A d : IsRaised(MaybeVerify(lang, d, get))
  BY <1>5 DEF MaybeVerify
<1> QED
  BY <1>1, <1>4, <1>6 DEF Evaluate, Expecting

\* Until somebody edits the file, every receipt that was ever appended is served by
\* every process, and both clients accept it; and what /healthz of one process counts
\* can be fetched from any other (get_receipt, get_healthz, the methods of the clients).
THEOREM AppendedIsServed == SSpec => []AckedIsServed
<1>1. SInit => ServedInv /\ SignatureInv
  BY DEF SInit, Init, ServedInv, SignatureInv, Positions
<1>2. StoreInv /\ TypeInv /\ SignatureInv /\ ServedInv /\ [SNext]_svars => SignatureInv' /\ ServedInv'
  <2> SUFFICES ASSUME StoreInv, TypeInv, SignatureInv, ServedInv, [SNext]_svars
               PROVE  SignatureInv' /\ ServedInv'
    OBVIOUS
  <2>1. CASE UNCHANGED <<rows, acked>>
    BY <2>1, ServedStep DEF SignatureInv, TracedTo, Positions
  <2> QED
    BY <2>1, TableSteps, EditTraced, AppendTraced, ServedStep
<1>3. StoreInv /\ TypeInv /\ SignatureInv /\ ServedInv => AckedIsServed
  <2> SUFFICES ASSUME StoreInv, TypeInv, SignatureInv, ServedInv, edits = 0
               PROVE  AckedIsServed
    BY DEF AckedIsServed
  <2>1. \A r \in acked : r \in Envelope /\ r.sig = [by |-> r.issuer, over |-> r.body]
    BY StoreAssumption DEF TypeInv, HistoryType, SignatureInv
  <2>2. ASSUME NEW r \in acked, NEW lang \in Language
        PROVE  /\ Evaluate(lang, Answered(r), Served(r), TRUE)
                     = Decided(r.body.decision, r.body, r.body)
               /\ Served(r).receipt = r
               /\ IsRaised(Evaluate(lang, Answered(r), GetReceipt(r.body, None, FALSE), TRUE))
    <3>1. Served(r) = Received(r)
      BY ServesAppended
    <3>2. Evaluate(lang, Answered(r), Received(r), TRUE)
            = Decided(r.body.decision, r.body, r.body)
      <4>1. r.body.decision \in Decision
        BY <2>1, EnvelopeParts DEF Receipt
      <4> QED
        BY <2>1, <4>1, ClientsAccept DEF Evaluate
    <3>3. Served(r).receipt = r
      BY ServesAppended
    <3>4. IsRaised(Evaluate(lang, Answered(r), GetReceipt(r.body, None, FALSE), TRUE))
      BY <2>1, NotFetched
    <3> QED
      BY <3>1, <3>2, <3>3, <3>4, Zenon
  <2>3. ASSUME NEW p \in Process, NEW i \in 0 .. Healthz(p).count - 1
        PROVE  /\ GetBySequence(i) # None
               /\ TsVerifyReceiptUrl(Served(GetBySequence(i)))
                    = [ok |-> TRUE, content_id |-> GetBySequence(i).body]
    <3>1. PICK m \in Nat : Filled = 0 .. m - 1 /\ len[p] \in 0 .. m
      <4>1. PICK m \in Nat : FilledUpTo(m)
        BY DEF TypeInv
      <4>2. PICK inserted : /\ IsFiniteSet(inserted)
                            /\ Cardinality(inserted) <= 0
                            /\ Filled \cup inserted = 0 .. m - 1
        BY <4>1 DEF FilledUpTo
      <4>3. inserted = {}
        BY <4>2, FS_CardinalityType, FS_EmptySet
      <4> QED
        BY <4>1, <4>2, <4>3 DEF FilledUpTo
    <3>2. i \in Filled
      BY <2>3, <3>1 DEF Healthz
    <3>3. PICK a \in acked : a.body.seq = i
      BY <3>2 DEF Filled
    <3>4. PICK n \in Nat : Extent(n)
      BY DEF StoreInv, ChainInv
    <3>5. PICK j \in Positions : rows[j].blob = a
      BY DEF ServedInv
    <3>6. j = i
      BY <3>3, <3>4, <3>5 DEF Extent, RowSound
    <3>7. GetBySequence(i) = a /\ a # None
      BY <2>1, <3>5, <3>6, EnvelopeParts DEF GetBySequence
    <3>8. TsVerifyReceiptUrl(Served(a)) = [ok |-> TRUE, content_id |-> a.body]
      <4>1. "py" \in Language
        BY DEF Language
      <4>2. a.body.decision \in Decision
        BY <2>1, EnvelopeParts DEF Receipt
      <4>3. TsVerifyReceiptUrl(Received(a)) = [ok |-> TRUE, content_id |-> a.body]
        BY <2>1, <4>1, <4>2, ClientsAccept
      <4> QED
        BY <4>3, ServesAppended
    <3> QED
      BY <3>7, <3>8
  <2>4. \A r \in acked, lang \in Language :
          /\ Evaluate(lang, Answered(r), Served(r), TRUE)
               = Decided(r.body.decision, r.body, r.body)
          /\ Served(r).receipt = r
          /\ IsRaised(Evaluate(lang, Answered(r), GetReceipt(r.body, None, FALSE), TRUE))
    BY <2>2
  <2>5. \A p \in Process : \A i \in 0 .. Healthz(p).count - 1 :
          /\ GetBySequence(i) # None
          /\ TsVerifyReceiptUrl(Served(GetBySequence(i)))
               = [ok |-> TRUE, content_id |-> GetBySequence(i).body]
    BY <2>3
  <2> QED
    BY <2>4, <2>5 DEF AckedIsServed
<1> QED
  BY <1>1, <1>2, <1>3, StoreIsSound, TypesHold, PTL DEF SSpec

-----------------------------------------------------------------------------
(* Files of receipts.                                                      *)

Logs == Seq(Envelope) \cup {None}

LEMMA LogsStay ==
  ASSUME NEW log \in Logs, NEW r \in Envelope, NEW v
  PROVE  InMemoryAppend(log, r, v) \in Logs
<1>1. CASE InMemoryAppend(log, r, v) = None
  BY <1>1 DEF Logs
<1>2. CASE InMemoryAppend(log, r, v) # None
  <2>1. log # None /\ InMemoryAppend(log, r, v) = Append(log, r)
    BY <1>2 DEF InMemoryAppend
  <2>2. log \in Seq(Envelope)
    BY <2>1 DEF Logs
  <2>3. Append(log, r) \in Seq(Envelope)
    BY <2>2
  <2> QED
    BY <2>1, <2>3 DEF Logs
<1> QED
  BY <1>1, <1>2

\* The logs that load_receipts_dir goes through.
LoadsBy(h, N, order, v) ==
  /\ h[0] = << >>
  /\ \A n \in 1 .. N : h[n] = InMemoryAppend(h[n - 1], order[n], v)
  /\ Load(order, v) = h[N]

LEMMA LoadFold ==
  ASSUME NEW N \in Nat, NEW order \in [1 .. N -> Envelope], NEW v
  PROVE  \E h : LoadsBy(h, N, order, v)
<1>1. DOMAIN order = 1 .. N
  OBVIOUS
<1>2. PICK pick : pick = [s \in (SUBSET (1 .. N)) \ {{}} |-> CHOOSE x \in s : \A y \in s : x >= y]
  OBVIOUS
<1>3. \A s \in (SUBSET (1 .. N)) \ {{}} : pick[s] = Max(s)
  BY <1>2 DEF Max
<1>4. Latest(pick, N)
  BY <1>2, LatestExists
<1>5. PICK add : add = [n \in 1 .. N |-> [log \in Logs |-> InMemoryAppend(log, order[n], v)]]
  OBVIOUS
<1>6. Steps(add, 1 .. N, Logs)
  <2>1. \A n \in 1 .. N : order[n] \in Envelope
    OBVIOUS
  <2>2. \A n \in 1 .. N, log \in Logs : InMemoryAppend(log, order[n], v) \in Logs
    BY <2>1, LogsStay
  <2> QED
    BY <1>5, <2>2 DEF Steps
<1>7. << >> \in Logs
  BY DEF Logs
<1>8. HasFold(1 .. N, Logs, << >>, pick, add)
  BY <1>4, <1>6, <1>7, LatestFold
<1>9. PICK g \in [SUBSET (1 .. N) -> Logs] : AllFold(g, 1 .. N, << >>, pick, add)
  BY <1>8 DEF HasFold
<1> DEFINE Eq(f) == f = [s \in SUBSET (1 .. N) |->
              IF s = {} THEN << >> ELSE InMemoryAppend(f[s \ {Max(s)}], order[Max(s)], v)]
<1>10. Eq(g)
  <2>1. ASSUME NEW s \in (SUBSET (1 .. N)) \ {{}}
        PROVE  g[s] = InMemoryAppend(g[s \ {Max(s)}], order[Max(s)], v)
    <3>1. pick[s] = Max(s) /\ Max(s) \in 1 .. N
      BY <1>3, <1>4 DEF Latest, Picks
    <3>2. g[s] = add[Max(s)][g[s \ {Max(s)}]] /\ g[s \ {Max(s)}] \in Logs
      BY <1>9, <3>1 DEF AllFold, Folds
    <3> QED
      BY <1>5, <3>1, <3>2
  <2> QED
    BY <1>9, <2>1 DEF AllFold, Folds
<1>11. PICK iter : iter = CHOOSE f : Eq(f)
  OBVIOUS
<1>12. Load(order, v) = iter[1 .. N]
  BY <1>1, <1>11 DEF Load, FoldLeft, MapThenFoldSet
<1>13. Eq(iter)
  <2> HIDE DEF Eq
  <2> QED
    BY <1>10, <1>11
<1>14. PICK h : h = [n \in 0 .. N |-> iter[1 .. n]]
  OBVIOUS
<1>15. h[0] = << >>
  <2>1. 1 .. 0 = {} /\ 0 \in 0 .. N
    OBVIOUS
  <2> QED
    BY <1>13, <1>14, <2>1
<1>16. ASSUME NEW n \in 1 .. N
       PROVE  h[n] = InMemoryAppend(h[n - 1], order[n], v)
  <2>1. /\ (1 .. n) \in (SUBSET (1 .. N)) \ {{}}
        /\ pick[1 .. n] = n
        /\ (1 .. n) \ {n} = 1 .. (n - 1)
    BY <1>4, LatestOfPrefix
  <2>3. Max(1 .. n) = n
    BY <1>3, <2>1
  <2>2. n \in 0 .. N /\ n - 1 \in 0 .. N
    OBVIOUS
  <2> QED
    BY <1>13, <1>14, <2>1, <2>2, <2>3
<1>17. h[N] = iter[1 .. N]
  BY <1>14
<1> QED
  BY <1>12, <1>15, <1>16, <1>17 DEF LoadsBy

\* What InMemoryReceiptLog::append has checked of the file at position n.
Checked(order, n, v) ==
  /\ order[n].version = v
  /\ order[n].issuer = order[1].issuer
  /\ order[n].body.seq = n - 1
  /\ order[n].body.prev = IF n = 1 THEN ZeroDigest ELSE order[n - 1].body.leaf
  /\ Verifies(order[n], v)

AllChecked(order, n, v) == \A i \in 1 .. n : Checked(order, i, v)

\* The first n files.
First(order, n) == [i \in 1 .. n |-> order[i]]

LEMMA FirstFiles ==
  ASSUME NEW N \in Nat, NEW order \in [1 .. N -> Envelope], NEW n \in 0 .. N - 1
  PROVE  /\ First(order, n) \in Seq(Envelope)
         /\ Len(First(order, n)) = n
         /\ First(order, n) = << >> <=> n = 0
         /\ \A i \in 1 .. n : First(order, n)[i] = order[i]
         /\ Append(First(order, n), order[n + 1]) = First(order, n + 1)
<1>1. n \in Nat /\ (\A i \in 1 .. n + 1 : i \in 1 .. N /\ order[i] \in Envelope)
  OBVIOUS
<1>2. PICK a : a = First(order, n)
  OBVIOUS
<1>3. a \in [1 .. n -> Envelope]
  BY <1>1, <1>2 DEF First
<1>4. a \in Seq(Envelope) /\ Len(a) = n
  BY <1>1, <1>3
<1>5. a = << >> <=> n = 0
  BY <1>4
<1>6. \A i \in 1 .. n : a[i] = order[i]
  BY <1>2 DEF First
<1>7. Append(a, order[n + 1]) = First(order, n + 1)
  <2>1. Append(a, order[n + 1]) \in Seq(Envelope) /\ Len(Append(a, order[n + 1])) = n + 1
    BY <1>1, <1>4
  <2>2. \A i \in 1 .. n + 1 : Append(a, order[n + 1])[i] = order[i]
    BY <1>1, <1>4, <1>6
  <2>3. DOMAIN Append(a, order[n + 1]) = 1 .. n + 1
    BY <2>1
  <2> QED
    BY <2>1, <2>2, <2>3 DEF First
<1> QED
  BY <1>2, <1>4, <1>5, <1>6, <1>7

\* The files load if each of them passes, and the log is then the files in order.
LEMMA LoadIs ==
  ASSUME NEW N \in Nat, NEW order \in [1 .. N -> Envelope], NEW v
  PROVE  Load(order, v) = IF AllChecked(order, N, v) THEN order ELSE None
<1>1. PICK h : /\ h[0] = << >>
               /\ \A n \in 1 .. N : h[n] = InMemoryAppend(h[n - 1], order[n], v)
               /\ Load(order, v) = h[N]
  <2>1. PICK h : LoadsBy(h, N, order, v)
    BY LoadFold
  <2> QED
    BY <2>1 DEF LoadsBy
<1> DEFINE Loaded(n) == h[n] = IF AllChecked(order, n, v) THEN First(order, n) ELSE None
           Good == {n \in Nat : n <= N => Loaded(n)}
<1>2. 0 \in Good
  <2>1. AllChecked(order, 0, v)
    BY DEF AllChecked
  <2>2. First(order, 0) = << >>
    BY DEF First
  <2> QED
    BY <1>1, <2>1, <2>2
<1>3. ASSUME NEW n \in Good
      PROVE  n + 1 \in Good
  <2> SUFFICES ASSUME n + 1 <= N PROVE Loaded(n + 1)
    OBVIOUS
  <2>1. n \in Nat /\ n \in 0 .. N - 1 /\ n + 1 \in 1 .. N /\ (n + 1) - 1 = n /\ n <= N
    OBVIOUS
  <2>2. Loaded(n)
    BY <2>1
  <2>3. PICK r \in Envelope : r = order[n + 1]
    BY <2>1
  <2>4. h[n + 1] = InMemoryAppend(h[n], r, v)
    BY <1>1, <2>1, <2>3
  <2>5. AllChecked(order, n + 1, v) <=> AllChecked(order, n, v) /\ Checked(order, n + 1, v)
    <3>1. 1 .. n + 1 = (1 .. n) \cup {n + 1}
      BY <2>1
    <3> QED
      BY <3>1 DEF AllChecked
  <2>6. CASE ~AllChecked(order, n, v)
    <3>1. h[n] = None
      BY <2>2, <2>6
    <3>2. h[n + 1] = None
      BY <2>4, <3>1 DEF InMemoryAppend
    <3> QED
      BY <2>5, <2>6, <3>2
  <2>7. CASE AllChecked(order, n, v)
    <3>1. PICK a : a = First(order, n)
      OBVIOUS
    <3>2. /\ a \in Seq(Envelope) /\ Len(a) = n /\ (a = << >> <=> n = 0)
          /\ \A i \in 1 .. n : a[i] = order[i]
          /\ Append(a, r) = First(order, n + 1)
      BY <2>1, <2>3, <3>1, FirstFiles
    <3>3. a # None
      BY <3>2, ClientAssumption
    <3>4. h[n] = a
      BY <2>2, <2>7, <3>1
    <3> DEFINE Passes == /\ r.version = v
                         /\ a # << >> => r.issuer = a[1].issuer
                         /\ r.body.seq = Len(a)
                         /\ r.body.prev = IF a = << >> THEN ZeroDigest ELSE a[Len(a)].body.leaf
                         /\ Verifies(r, v)
    <3>5. InMemoryAppend(a, r, v) = IF Passes THEN Append(a, r) ELSE None
      BY <3>3 DEF InMemoryAppend
    <3>6. Passes <=> Checked(order, n + 1, v)
      <4>1. CASE n = 0
        BY <2>3, <3>2, <4>1 DEF Checked
      <4>2. CASE n # 0
        <5>1. 1 \in 1 .. n /\ n \in 1 .. n /\ n + 1 # 1
          BY <2>1, <4>2
        <5>2. a # << >> /\ a[1] = order[1] /\ a[Len(a)] = order[n]
          BY <3>2, <4>2, <5>1
        <5> QED
          BY <2>1, <2>3, <3>2, <5>1, <5>2 DEF Checked
      <4> QED
        BY <4>1, <4>2
    <3> HIDE DEF Passes
    <3> QED
      BY <2>4, <2>5, <2>7, <3>2, <3>4, <3>5, <3>6
  <2> QED
    BY <2>6, <2>7
<1>4. Good = Nat
  <2> HIDE DEF Good
  <2>1. Good \in SUBSET Nat
    BY DEF Good
  <2> QED
    BY <1>2, <1>3, <2>1, NumberInduction
<1>5. Loaded(N)
  BY <1>4
<1>6. First(order, N) = order
  BY DEF First
<1> QED
  BY <1>1, <1>5, <1>6

\* Numbers that grow within their count are the positions.
LEMMA NoRoom ==
  ASSUME NEW N \in Nat, NEW pos \in [1 .. N -> 0 .. N - 1],
         \A m, n \in 1 .. N : m < n => pos[m] < pos[n]
  PROVE  \A n \in 1 .. N : pos[n] = n - 1
<1> DEFINE Up == {k \in Nat : k + 1 <= N => pos[k + 1] >= k}
           Down == {k \in Nat : k < N => pos[N - k] <= N - k - 1}
<1>1. Up = Nat
  <2>1. 0 \in Up
    OBVIOUS
  <2>2. ASSUME NEW k \in Up PROVE k + 1 \in Up
    <3> SUFFICES ASSUME (k + 1) + 1 <= N PROVE pos[(k + 1) + 1] >= k + 1
      OBVIOUS
    <3>1. k \in Nat /\ k + 1 \in 1 .. N /\ (k + 1) + 1 \in 1 .. N
      OBVIOUS
    <3>2. pos[k + 1] >= k /\ pos[k + 1] < pos[(k + 1) + 1]
      BY <3>1
    <3>3. pos[k + 1] \in Nat /\ pos[(k + 1) + 1] \in Nat
      BY <3>1
    <3> QED
      BY <3>1, <3>2, <3>3
  <2>3. Up \in SUBSET Nat
    OBVIOUS
  <2> HIDE DEF Up
  <2> QED
    BY <2>1, <2>2, <2>3, NumberInduction
<1>2. Down = Nat
  <2>1. 0 \in Down
    <3> SUFFICES ASSUME 0 < N PROVE pos[N - 0] <= N - 0 - 1
      OBVIOUS
    <3>1. N - 0 \in 1 .. N
      OBVIOUS
    <3>2. pos[N - 0] \in 0 .. N - 1
      BY <3>1
    <3> QED
      BY <3>2
  <2>2. ASSUME NEW k \in Down PROVE k + 1 \in Down
    <3> SUFFICES ASSUME k + 1 < N PROVE pos[N - (k + 1)] <= N - (k + 1) - 1
      OBVIOUS
    <3>1. k \in Nat /\ N - k \in 1 .. N /\ N - (k + 1) \in 1 .. N /\ N - (k + 1) < N - k
      OBVIOUS
    <3>2. pos[N - k] <= N - k - 1 /\ pos[N - (k + 1)] < pos[N - k]
      BY <3>1
    <3>3. pos[N - k] \in Nat /\ pos[N - (k + 1)] \in Nat
      BY <3>1
    <3> QED
      BY <3>1, <3>2, <3>3
  <2>3. Down \in SUBSET Nat
    OBVIOUS
  <2> HIDE DEF Down
  <2> QED
    BY <2>1, <2>2, <2>3, NumberInduction
<1> SUFFICES ASSUME NEW n \in 1 .. N PROVE pos[n] = n - 1
  OBVIOUS
<1>3. n - 1 \in Up /\ N - n \in Down
  <2>1. n - 1 \in Nat /\ N - n \in Nat
    OBVIOUS
  <2> HIDE DEF Up, Down
  <2> QED
    BY <1>1, <1>2, <2>1
<1>4. n \in Nat /\ (n - 1) + 1 = n /\ N - (N - n) = n /\ n - 1 + 1 <= N /\ N - n < N /\ pos[n] \in Nat
  OBVIOUS
<1>5. pos[n] >= n - 1 /\ pos[n] <= n - 1
  BY <1>3, <1>4
<1> QED
  BY <1>4, <1>5

\* The files of a chain can be put in order in one way.
LEMMA OneOrder ==
  ASSUME NEW N \in Nat, NEW chain \in [1 .. N -> Envelope],
         \A n \in 1 .. N : chain[n].body.seq = n - 1
  PROVE  Cardinality(Range(chain)) = N /\ Sorted(Range(chain)) = {chain}
<1>1. PICK files : files = Range(chain)
  OBVIOUS
<1>2. files = {chain[n] : n \in 1 .. N}
  BY <1>1 DEF Range
<1>3. \A m, n \in 1 .. N : chain[m] = chain[n] => m = n
  <2> SUFFICES ASSUME NEW m \in 1 .. N, NEW n \in 1 .. N, chain[m] = chain[n] PROVE m = n
    OBVIOUS
  <2>1. m - 1 = n - 1
    OBVIOUS
  <2> QED
    BY <2>1
<1>4. chain \in Bijection(1 .. N, files)
  BY <1>2, <1>3 DEF Bijection, Injection, Surjection, IsInjective
<1>5. Cardinality(files) = N
  BY <1>4, FS_CountingElements DEF ExistsBijection
<1>6. chain \in Sorted(files)
  <2>1. \A m, n \in DOMAIN chain : m < n => chain[m].body.seq <= chain[n].body.seq
    OBVIOUS
  <2> QED
    BY <1>4, <1>5, <2>1 DEF Sorted
<1>7. ASSUME NEW order \in Sorted(files)
      PROVE  order = chain
  <2>1. order \in [1 .. N -> files] /\ (\A m, n \in 1 .. N : order[m] = order[n] => m = n)
    BY <1>5 DEF Sorted, Bijection, Injection, IsInjective
  <2>2. \A m, n \in 1 .. N : m < n => order[m].body.seq <= order[n].body.seq
    BY <1>5, <2>1 DEF Sorted
  <2>3. PICK pos : pos = [n \in 1 .. N |-> order[n].body.seq]
    OBVIOUS
  <2>4. \A n \in 1 .. N : order[n] \in files
    BY <2>1
  <2>5. \A n \in 1 .. N : \E i \in 1 .. N : order[n] = chain[i] /\ pos[n] = i - 1
    BY <1>2, <2>3, <2>4
  <2>6. pos \in [1 .. N -> 0 .. N - 1]
    <3>1. ASSUME NEW n \in 1 .. N PROVE pos[n] \in 0 .. N - 1
      <4>1. PICK i \in 1 .. N : pos[n] = i - 1
        BY <2>5
      <4> QED
        BY <4>1
    <3> QED
      BY <2>3, <3>1
  <2>7. ASSUME NEW m \in 1 .. N, NEW n \in 1 .. N, m < n
        PROVE  pos[m] < pos[n]
    <3>1. pos[m] <= pos[n]
      BY <2>2, <2>3, <2>7
    <3>2. pos[m] # pos[n]
      <4>1. PICK i \in 1 .. N : order[m] = chain[i] /\ pos[m] = i - 1
        BY <2>5
      <4>2. PICK j \in 1 .. N : order[n] = chain[j] /\ pos[n] = j - 1
        BY <2>5
      <4>3. i # j
        BY <2>1, <2>7, <4>1, <4>2
      <4> QED
        BY <4>1, <4>2, <4>3
    <3>3. pos[m] \in 0 .. N - 1 /\ pos[n] \in 0 .. N - 1
      BY <2>6
    <3> QED
      BY <3>1, <3>2, <3>3
  <2>8. \A n \in 1 .. N : pos[n] = n - 1
    BY <2>6, <2>7, NoRoom
  <2>9. ASSUME NEW n \in 1 .. N PROVE order[n] = chain[n]
    <3>1. PICK i \in 1 .. N : order[n] = chain[i] /\ pos[n] = i - 1
      BY <2>5
    <3>2. i = n
      BY <2>8, <3>1
    <3> QED
      BY <3>1, <3>2
  <2> QED
    BY <2>1, <2>9
<1> QED
  BY <1>1, <1>5, <1>6, <1>7

\* The chain in the database, as a log.
Chain(n) == [i \in 1 .. n |-> rows[i - 1].blob]

LEMMA ChainParts ==
  ASSUME StoreInv, TypeInv, ServedInv, edits = 0, NEW n \in Nat, Extent(n),
         NEW chain, chain = Chain(n)
  PROVE  /\ chain \in [1 .. n -> Envelope]
         /\ \A i \in 1 .. n : chain[i] \in acked /\ chain[i].body.seq = i - 1
         /\ AllChecked(chain, n, meta["version"])
<1>1. ASSUME NEW i \in 1 .. n
      PROVE  /\ i - 1 \in Positions
             /\ RowSound(i - 1)
             /\ chain[i] = rows[i - 1].blob
             /\ chain[i] \in acked
             /\ chain[i] \in Envelope
  <2>1. i - 1 \in 0 .. n - 1
    OBVIOUS
  <2>2. i - 1 \in Positions /\ RowSound(i - 1)
    BY <2>1 DEF Extent
  <2>3. chain[i] = rows[i - 1].blob
    BY DEF Chain
  <2>4. chain[i] \in acked
    BY <2>2, <2>3 DEF ServedInv
  <2>5. chain[i] \in Envelope
    BY <2>4, StoreAssumption DEF TypeInv, HistoryType
  <2> QED
    BY <2>2, <2>3, <2>4, <2>5
<1>2. chain \in [1 .. n -> Envelope]
  <2>1. DOMAIN chain = 1 .. n /\ chain = [i \in 1 .. n |-> chain[i]]
    BY DEF Chain
  <2> QED
    BY <1>1, <2>1
<1>3. ASSUME NEW i \in 1 .. n
      PROVE  Checked(chain, i, meta["version"])
  <2>1. 1 \in 1 .. n /\ (i # 1 => i - 1 \in 1 .. n)
    OBVIOUS
  <2>2. chain[i].version = meta["version"] /\ Verifies(chain[i], meta["version"])
    BY <1>1 DEF RowSound
  <2>3. chain[i].issuer = meta["issuer"] /\ chain[1].issuer = meta["issuer"]
    BY <1>1, <2>1 DEF RowSound
  <2>4. chain[i].body.seq = i - 1
    BY <1>1 DEF RowSound
  <2>5. chain[i].body.prev = LeafAt(i - 1)
    BY <1>1 DEF RowSound
  <2>6. LeafAt(i - 1) = IF i = 1 THEN ZeroDigest ELSE chain[i - 1].body.leaf
    <3>1. CASE i = 1
      BY <3>1 DEF LeafAt
    <3>2. CASE i # 1
      <4>1. i - 1 # 0
        BY <3>2
      <4>2. LeafAt(i - 1) = rows[(i - 1) - 1].blob.body.leaf
        BY <4>1 DEF LeafAt
      <4> QED
        BY <1>1, <2>1, <3>2, <4>2
    <3> QED
      BY <3>1, <3>2
  <2> QED
    BY <2>2, <2>3, <2>4, <2>5, <2>6 DEF Checked
<1>4. AllChecked(chain, n, meta["version"])
  BY <1>3 DEF AllChecked
<1>5. \A i \in 1 .. n : chain[i] \in acked /\ chain[i].body.seq = i - 1
  BY <1>1 DEF RowSound
<1> QED
  BY <1>2, <1>4, <1>5

\* Both clients fetch the rows.
LEMMA FetchedFiles ==
  ASSUME StoreInv, TypeInv, ServedInv, edits = 0, NEW n \in Nat, Extent(n),
         NEW chain, chain = Chain(n)
  PROVE  /\ {PyGetReceipt(GetReceipt(rows[i].id, None, TRUE)) : i \in Positions} = Range(chain)
         /\ {TsGetReceipt(GetReceipt(rows[i].id, None, TRUE)) : i \in Positions} = Range(chain)
<1>1. ASSUME NEW i \in Positions
      PROVE  /\ PyGetReceipt(GetReceipt(rows[i].id, None, TRUE)) = rows[i].blob
             /\ TsGetReceipt(GetReceipt(rows[i].id, None, TRUE)) = rows[i].blob
  <2>1. PICK r \in acked : r = rows[i].blob /\ rows[i].id = r.body
    BY DEF ServedInv
  <2>2. r \in Envelope
    BY StoreAssumption DEF TypeInv, HistoryType
  <2>3. PICK get : get = Received(r)
    OBVIOUS
  <2>4. GetReceipt(rows[i].id, None, TRUE) = get
    BY <2>1, <2>3, ServesAppended DEF Served
  <2>5. get.status = 200 /\ get.receipt = r
    BY <2>3 DEF Received
  <2>6. r \notin {Unreadable, Misshapen} /\ get # None
    <3>1. get \in [status : Nat, receipt : Envelope]
      BY <2>2, <2>3 DEF Received
    <3> QED
      BY <2>2, <3>1, ClientAssumption
  <2>7. PyGetReceipt(get) = r /\ TsGetReceipt(get) = r
    BY <2>5, <2>6 DEF PyGetReceipt, TsGetReceipt
  <2> QED
    BY <2>1, <2>4, <2>7
<1>2. Positions = 0 .. n - 1
  BY DEF Extent
<1>3. {rows[i].blob : i \in Positions} = Range(chain)
  <2>1. ASSUME NEW i \in Positions PROVE rows[i].blob \in Range(chain)
    <3>1. i + 1 \in 1 .. n /\ (i + 1) - 1 = i
      BY <1>2
    <3> QED
      BY <3>1 DEF Chain, Range
  <2>2. ASSUME NEW i \in 1 .. n PROVE chain[i] \in {rows[j].blob : j \in Positions}
    <3>1. i - 1 \in Positions
      BY <1>2
    <3> QED
      BY <3>1 DEF Chain
  <2>3. Range(chain) = {chain[i] : i \in 1 .. n}
    BY DEF Chain, Range
  <2> QED
    BY <2>1, <2>2, <2>3
<1> QED
  BY <1>1, <1>3

\* What loads is a chain of all the files.
LEMMA LoadedIsMirror ==
  ASSUME NEW some, some \subseteq Envelope, IsFiniteSet(some), NEW v,
         NEW log \in LoadReceiptsDir(some, v), log # None
  PROVE  MirrorOf(log, some)
<1>1. PICK N \in Nat : N = Cardinality(some)
  BY FS_CardinalityType
<1>2. PICK order \in Sorted(some) : log = Load(order, v)
  BY DEF LoadReceiptsDir
<1>3. order \in [1 .. N -> some] /\ \A r \in some : \E n \in 1 .. N : order[n] = r
  BY <1>1, <1>2 DEF Sorted, Bijection, Surjection
<1>4. order \in [1 .. N -> Envelope]
  BY <1>3
<1>5. log = order /\ AllChecked(order, N, v)
  BY <1>2, <1>4, LoadIs
<1>6. DOMAIN order = 1 .. N /\ Range(order) = some
  BY <1>3 DEF Range
<1>7. \A n \in 1 .. N : Checked(order, n, v)
  BY <1>5 DEF AllChecked
<1>8. \A n \in 1 .. N : VerifyReceipt(order[n]).ok
  BY <1>7 DEF Checked, Verifies, VerifyReceipt
<1> QED
  BY <1>5, <1>6, <1>7, <1>8 DEF MirrorOf, Checked

LEMMA ServedHolds == SSpec => []ServedInv
<1>1. SInit => ServedInv
  BY DEF SInit, Init, ServedInv, Positions
<1> QED
  BY <1>1, ServedStep, StoreIsSound, PTL DEF SSpec

\* Fetched with either client, saved and loaded by a read-only host, the receipts of
\* a database are the chain that it holds; and no other receipts that were signed can
\* stand beside them or in their place: a directory that loads is one issuer's chain
\* from its first receipt on (load_receipts_dir, InMemoryReceiptLog::append).
THEOREM MirrorHoldsChain == SSpec => []MirrorAgrees
<1>1. StoreInv /\ TypeInv /\ ServedInv => MirrorAgrees
  <2> SUFFICES ASSUME StoreInv, TypeInv, ServedInv, edits = 0, Positions # {}
               PROVE  MirrorAgrees
    BY DEF MirrorAgrees
  <2>1. PICK n \in Nat : Extent(n)
    BY DEF StoreInv, ChainInv
  <2>2. PICK v : v = meta["version"]
    OBVIOUS
  <2>3. PICK chain : chain = Chain(n)
    OBVIOUS
  <2>4. /\ chain \in [1 .. n -> Envelope]
        /\ \A i \in 1 .. n : chain[i] \in acked /\ chain[i].body.seq = i - 1
        /\ AllChecked(chain, n, v)
    BY <2>1, <2>2, <2>3, ChainParts
  <2>5. Cardinality(Positions) = n
    BY <2>1, LastOfRows
  <2>6. PICK files : files = {PyGetReceipt(GetReceipt(rows[i].id, None, TRUE)) : i \in Positions}
    OBVIOUS
  <2>7. files = Range(chain) /\ files = {TsGetReceipt(GetReceipt(rows[i].id, None, TRUE)) : i \in Positions}
    BY <2>1, <2>3, <2>6, FetchedFiles
  <2>8. LoadReceiptsDir(files, v) = {chain}
    <3>1. Sorted(files) = {chain}
      BY <2>4, <2>7, OneOrder
    <3>2. Load(chain, v) = chain
      BY <2>4, LoadIs
    <3> QED
      BY <3>1, <3>2 DEF LoadReceiptsDir
  <2>9. chain = [i \in 1 .. Cardinality(Positions) |-> rows[i - 1].blob]
    BY <2>3, <2>5 DEF Chain
  <2>10. files \cup signed \subseteq Envelope /\ IsFiniteSet(files \cup signed)
    <3>1. files \subseteq acked
      BY <2>4, <2>7 DEF Range
    <3>2. files \subseteq signed \cup Outside /\ signed \subseteq Envelope /\ IsFiniteSet(signed)
      BY <3>1 DEF TypeInv, HistoryType
    <3>3. IsFiniteSet(signed \cup Outside) /\ Outside \subseteq Envelope
      BY <3>2, FS_Union, StoreAssumption
    <3>4. files \cup signed \subseteq signed \cup Outside
      BY <3>2
    <3> QED
      BY <3>2, <3>3, <3>4, FS_Subset
  <2>11. ASSUME NEW some \in SUBSET (files \cup signed) \ {{}}, NEW log \in LoadReceiptsDir(some, v),
                log # None
         PROVE  MirrorOf(log, some)
    <3>1. some \subseteq Envelope /\ IsFiniteSet(some)
      BY <2>10, FS_Subset
    <3> QED
      BY <2>11, <3>1, LoadedIsMirror
  <2> QED
    BY <2>2, <2>6, <2>7, <2>8, <2>9, <2>11 DEF MirrorAgrees
<1> QED
  BY <1>1, StoreIsSound, TypesHold, ServedHolds, PTL

-----------------------------------------------------------------------------
(* The clients on their own.                                               *)

\* A client that verifies returns its decision only if the receipt it fetched is the
\* one that was named and its signature holds; the other client then does the same.
LEMMA Verification ==
  ASSUME NEW d, ~IsRaised(d), NEW get, NEW lang \in Language, NEW other \in Language,
         ~IsRaised(MaybeVerify(lang, d, get))
  PROVE  /\ MaybeVerify(lang, d, get) = d
         /\ MaybeVerify(other, d, get) = d
         /\ Grounded(d, get)
<1>1. \A e : IsRaised(Raised(e))
  BY DEF IsRaised, Raised
<1>2. get # None /\ get.status = 200
  BY <1>1 DEF MaybeVerify, Verified, PyVerifyReceiptUrl, TsClientVerifyReceiptUrl
<1>3. \A l \in Language : Verified(l, get) = VerifyJson(get.receipt)
  BY <1>2 DEF Verified, PyVerifyReceiptUrl, TsClientVerifyReceiptUrl
<1>4. ~IsRaised(VerifyJson(get.receipt))
  BY DEF VerifyJson, VerifyReceipt, Rejected, IsRaised
<1>5. VerifyJson(get.receipt).ok /\ VerifyJson(get.receipt).content_id = d.content_id
  BY <1>1, <1>3, <1>4 DEF MaybeVerify
<1>6. \A l \in Language : MaybeVerify(l, d, get) = d
  BY <1>3, <1>4, <1>5 DEF MaybeVerify
<1>7. VerifyReceipt(get.receipt).ok /\ get.receipt.body = d.content_id
  BY <1>5 DEF VerifyJson, VerifyReceipt, Rejected
<1> QED
  BY <1>2, <1>6, <1>7 DEF Grounded

\* What the Python client makes of an answer, so does the TypeScript client; the
\* converse fails only where a field is missing.
LEMMA Posting ==
  ASSUME NEW post
  PROVE  /\ ~IsRaised(Posted("py", post)) => Posted("ts", post) = Posted("py", post)
         /\ ~IsRaised(Posted("ts", post)) /\ IsRaised(Posted("py", post)) =>
              ~(Field \subseteq DOMAIN post.body)
<1>1. \A e : IsRaised(Raised(e))
  BY DEF IsRaised, Raised
<1>2. CASE post = None \/ post.status # 200 \/ post.body \in {Unreadable, Misshapen}
  BY <1>1, <1>2 DEF Posted, PyPost, TsPost
<1>3. CASE post # None /\ post.status = 200 /\ post.body \notin {Unreadable, Misshapen}
  <2>1. PyPost(post) = post.body /\ TsPost(post) = post.body
    BY <1>3 DEF PyPost, TsPost
  <2>2. CASE IsRaised(post.body)
    BY <2>1, <2>2 DEF Posted
  <2>3. CASE ~IsRaised(post.body)
    <3>1. Posted("py", post) = PyBuildDecision(post.body) /\ Posted("ts", post) = TsBuildDecision(post.body)
      BY <2>1, <2>3 DEF Posted
    <3> QED
      BY <1>1, <3>1 DEF PyBuildDecision, TsBuildDecision, Field
  <2> QED
    BY <2>2, <2>3
<1> QED
  BY <1>2, <1>3

\* The answer of a host names its receipt and what that decides.
LEMMA HostSays ==
  ASSUME NEW post \in HostAnswers, ~IsRaised(Posted("ts", post))
  PROVE  Posted("ts", post).kind = Posted("ts", post).content_id.decision
<1>1. PICK r \in Samples : post = Answered(r)
  BY DEF HostAnswers
<1>2. \A e : IsRaised(Raised(e))
  BY DEF IsRaised, Raised
<1>3. post.body = Reply(r)
  BY <1>1 DEF Answered
<1>4. ~IsRaised(TsPost(post)) /\ TsPost(post) = Reply(r)
  BY <1>2, <1>3 DEF Posted, TsPost
<1>5. Posted("ts", post) = TsBuildDecision(Reply(r))
  BY <1>4 DEF Posted
<1>6. Reply(r).decision = r.body.decision /\ Reply(r).content_id = r.body /\ DOMAIN Reply(r) = Field
  BY DEF Reply, Field
<1> QED
  BY <1>2, <1>5, <1>6 DEF TsBuildDecision, Decided, Field

\* What two clients make of the same answers.
Alike(py, ts, post, get) ==
  /\ ~IsRaised(py) => Grounded(py, get) /\ ts = py
  /\ ~IsRaised(ts) => Grounded(ts, get)
  /\ ~IsRaised(ts) /\ post \in HostAnswers => ts.kind = get.receipt.body.decision
  /\ ~IsRaised(ts) /\ IsRaised(py) => ~(Field \subseteq DOMAIN post.body)

\* A method of either client.
LEMMA Methods ==
  ASSUME NEW kinds, NEW post, NEW get
  PROVE  Alike(Expecting(kinds, "py", post, get, TRUE), Expecting(kinds, "ts", post, get, TRUE), post, get)
<1> DEFINE py == Expecting(kinds, "py", post, get, TRUE)
           ts == Expecting(kinds, "ts", post, get, TRUE)
<1>1. \A e : IsRaised(Raised(e))
  BY DEF IsRaised, Raised
<1>2. "py" \in Language /\ "ts" \in Language
  BY DEF Language
<1>3. ASSUME NEW lang \in Language, ~IsRaised(Expecting(kinds, lang, post, get, TRUE))
      PROVE  /\ ~IsRaised(Posted(lang, post))
             /\ Posted(lang, post).kind \in kinds
             /\ Expecting(kinds, lang, post, get, TRUE) = MaybeVerify(lang, Posted(lang, post), get)
  BY <1>1, <1>3 DEF Expecting
<1>4. ASSUME NEW lang \in Language, NEW other \in Language,
             ~IsRaised(Expecting(kinds, lang, post, get, TRUE)),
             Posted(other, post) = Posted(lang, post)
      PROVE  /\ Expecting(kinds, lang, post, get, TRUE) = Posted(lang, post)
             /\ Expecting(kinds, other, post, get, TRUE) = Posted(lang, post)
             /\ Grounded(Posted(lang, post), get)
  <2>1. PICK d : d = Posted(lang, post)
    OBVIOUS
  <2>2. ~IsRaised(d) /\ d.kind \in kinds /\ ~IsRaised(MaybeVerify(lang, d, get))
        /\ Expecting(kinds, lang, post, get, TRUE) = MaybeVerify(lang, d, get)
    BY <1>3, <1>4, <2>1
  <2>3. /\ MaybeVerify(lang, d, get) = d
        /\ MaybeVerify(other, d, get) = d
        /\ Grounded(d, get)
    BY <2>2, Verification
  <2>4. Expecting(kinds, other, post, get, TRUE) = MaybeVerify(other, d, get)
    BY <1>4, <2>1, <2>2 DEF Expecting
  <2> QED
    BY <2>1, <2>2, <2>3, <2>4
<1>5. ASSUME ~IsRaised(py)
      PROVE  Grounded(py, get) /\ ts = py
  <2>1. Posted("ts", post) = Posted("py", post)
    BY <1>2, <1>3, <1>5, Posting
  <2> QED
    BY <1>2, <1>4, <1>5, <2>1
<1>6. ASSUME ~IsRaised(ts)
      PROVE  Grounded(ts, get)
    BY <1>2, <1>4, <1>6
<1>7. ASSUME ~IsRaised(ts), IsRaised(py), Field \subseteq DOMAIN post.body
      PROVE  FALSE
  <2>1. ~IsRaised(Posted("ts", post))
    BY <1>2, <1>3, <1>7
  <2>2. Posted("py", post) = Posted("ts", post)
    BY <1>7, <2>1, Posting
  <2>3. py = ts
    BY <1>2, <1>4, <1>7, <2>2
  <2> QED
    BY <1>7, <2>3
<1>8. ASSUME ~IsRaised(ts), post \in HostAnswers
      PROVE  ts.kind = get.receipt.body.decision
  <2>1. ~IsRaised(Posted("ts", post)) /\ ts = Posted("ts", post)
    BY <1>2, <1>3, <1>4, <1>8
  <2>2. ts.kind = ts.content_id.decision
    BY <1>8, <2>1, HostSays
  <2> QED
    BY <1>6, <1>8, <2>2 DEF Grounded
<1> HIDE DEF py, ts
<1>9. Alike(py, ts, post, get)
  BY <1>5, <1>6, <1>7, <1>8 DEF Alike
<1> QED
  BY <1>9 DEF py, ts

\* An error of the host is one to both clients.
LEMMA ClientsToldErrors ==
  ASSUME NEW code \in ApiError, NEW kinds, NEW lang \in Language, NEW get
  PROVE  /\ Expecting(kinds, lang, ErrorAnswer(code), get, TRUE) = Raised(code)
         /\ ErrorAnswer(code).body.error = code
         /\ ErrorAnswer(code).status = StatusOf[code]
<1>1. PICK post : post = ErrorAnswer(code)
  OBVIOUS
<1>2. StatusOf[code] \in Nat /\ StatusOf[code] # 200
  BY DEF ApiError, StatusOf
<1>3. post.status = StatusOf[code] /\ post.body = [error |-> code, detail |-> None]
  BY <1>1 DEF ErrorAnswer
<1>4. post.body \in ErrorBody
  BY <1>3 DEF ErrorBody
<1>5. post \in [status : Nat, body : ReceiptResponse \cup ErrorBody]
  BY <1>1, <1>2, <1>3, <1>4 DEF ErrorAnswer
<1>6. post # None /\ post.body \notin {Unreadable, Misshapen}
  BY <1>4, <1>5, ClientAssumption
<1>7. ErrorOf(post) = code
  <2>1. "body" \in DOMAIN post
    BY <1>1 DEF ErrorAnswer
  <2> QED
    BY <1>3, <1>6, <2>1 DEF ErrorOf
<1>8. PyPost(post) = Raised(code) /\ TsPost(post) = Raised(code)
  BY <1>2, <1>3, <1>6, <1>7 DEF PyPost, TsPost
<1>9. IsRaised(Raised(code))
  BY DEF IsRaised, Raised
<1>10. Posted(lang, post) = Raised(code)
  BY <1>8, <1>9 DEF Posted
<1> QED
  BY <1>1, <1>3, <1>9, <1>10 DEF Expecting

\* If the answer is the one that is due, the client makes of it what it should.
LEMMA Told ==
  ASSUME NEW r \in Envelope, r.sig = [by |-> r.issuer, over |-> r.body], NEW lang \in Language,
         NEW kinds, r.body.decision \in kinds,
         NEW inOrder \in BOOLEAN, NEW end \in End, NEW post,
         inOrder => post = IF end = "logged" THEN Answered(r) ELSE ErrorAnswer("internal"),
         ~inOrder => \E code \in ApiError :
           post = ErrorAnswer(code) /\ (code = "internal" => end = "poisoned")
  PROVE  Understood(inOrder, end, post, Expecting(kinds, lang, post, Received(r), TRUE), r)
<1>0. PICK get : get = Received(r)
  OBVIOUS
<1>1. PICK result : result = Expecting(kinds, lang, post, get, TRUE)
  OBVIOUS
<1>2. ASSUME inOrder, end = "logged"
      PROVE  result = Decided(r.body.decision, r.body, r.body)
  <2>1. Expecting(kinds, lang, Answered(r), Received(r), TRUE) = Decided(r.body.decision, r.body, r.body)
    BY ClientsAccept
  <2> QED
    BY <1>0, <1>1, <1>2, <2>1, Zenon
<1>3. ASSUME inOrder, end # "logged"
      PROVE  post.status = 500 /\ result = Raised("internal")
  <2>1. "internal" \in ApiError
    BY DEF ApiError, StatusOf
  <2>2. post = ErrorAnswer("internal") /\ StatusOf["internal"] = 500
    BY <1>3 DEF StatusOf
  <2>3. /\ Expecting(kinds, lang, ErrorAnswer("internal"), get, TRUE) = Raised("internal")
        /\ ErrorAnswer("internal").status = StatusOf["internal"]
    BY <2>1, ClientsToldErrors
  <2> QED
    BY <1>1, <2>2, <2>3, Zenon
<1>4. ASSUME ~inOrder
      PROVE  /\ result = Raised(post.body.error)
             /\ post.status < 500 \/ (end = "poisoned" /\ post.status = 500)
  <2>1. PICK code \in ApiError : post = ErrorAnswer(code) /\ (code = "internal" => end = "poisoned")
    BY <1>4
  <2>2. /\ Expecting(kinds, lang, ErrorAnswer(code), get, TRUE) = Raised(code)
        /\ ErrorAnswer(code).body.error = code
        /\ ErrorAnswer(code).status = StatusOf[code]
    BY ClientsToldErrors
  <2>3. result = Raised(post.body.error) /\ post.status = StatusOf[code]
    BY <1>1, <2>1, <2>2, Zenon
  <2>4. StatusOf[code] < 500 \/ (code = "internal" /\ StatusOf[code] = 500)
    BY DEF ApiError, StatusOf
  <2> QED
    BY <2>1, <2>3, <2>4
<1>5. Understood(inOrder, end, post, result, r)
  BY <1>2, <1>3, <1>4 DEF Understood
<1> QED
  BY <1>0, <1>1, <1>5, Zenon

LEMMA SamplesTyped == Samples \subseteq Envelope
<1>1. ASSUME NEW r \in Outside, NEW d \in Decision, NEW a \in Work \cup Tool
      PROVE  Altered(r, d, a) \in Envelope
  <2>1. r.version \in Format /\ r.issuer \in Signer /\ r.body \in Receipt
    BY StoreAssumption, EnvelopeParts
  <2>2. a \in Action
    BY StoreAssumption, ToolAssumption
  <2>3. [r.body EXCEPT !.decision = d, !.action = a] \in Receipt
    BY <2>1, <2>2 DEF Receipt
  <2> QED
    BY <2>1, <2>3 DEF Altered, Sign, Envelope
<1> QED
  BY <1>1, StoreAssumption DEF Samples

\* The checks of the handlers and those of the kernel together let through exactly the
\* requests that are in order and name a receipt of the host's own in the right state;
\* whatever else is asked for is answered with an error, one of 4xx unless the kernel is
\* out of reach, and a client can tell.
LEMMA HostIsUnderstood == AnswersUnderstood
<1> SUFFICES ASSUME NEW k \in Key, NEW v \in Version, NEW found \in Samples \cup {None},
                    NEW end \in End, NEW lang \in Language, NEW r \in Samples,
                    r.sig = [by |-> r.issuer, over |-> r.body]
             PROVE  AnswerUnderstood(k, v, found, end, lang, r)
  BY Zenon DEF AnswersUnderstood
<1>1. PICK get : get = Received(r)
  OBVIOUS
<1>2. r \in Envelope /\ r.body.decision \in Decision
  BY SamplesTyped, EnvelopeParts DEF Receipt
<1> DEFINE Due(inOrder, post) ==
      IF inOrder THEN post = IF end = "logged" THEN Answered(r) ELSE ErrorAnswer("internal")
      ELSE \E code \in ApiError : post = ErrorAnswer(code) /\ (code = "internal" => end = "poisoned")
<1>3. ASSUME NEW inOrder \in BOOLEAN, NEW post, Due(inOrder, post),
             NEW kinds, r.body.decision \in kinds
      PROVE  Understood(inOrder, end, post, Expecting(kinds, lang, post, get, TRUE), r)
  <2>1. /\ inOrder => post = IF end = "logged" THEN Answered(r) ELSE ErrorAnswer("internal")
        /\ ~inOrder => \E code \in ApiError :
             post = ErrorAnswer(code) /\ (code = "internal" => end = "poisoned")
    BY <1>3
  <2> QED
    BY <1>1, <1>2, <1>3, <2>1, Told
<1>4. \A inOrder, post :
        /\ inOrder /\ post = (IF end = "logged" THEN Answered(r) ELSE ErrorAnswer("internal"))
             => Due(inOrder, post)
        /\ ~inOrder /\ (\/ \E code \in {"bad_request", "not_found", "conflict"} : post = ErrorAnswer(code)
                        \/ end = "poisoned" /\ post = ErrorAnswer("internal"))
             => Due(inOrder, post)
  <2>1. {"bad_request", "not_found", "conflict"} \subseteq ApiError /\ "internal" \in ApiError
    BY DEF ApiError, StatusOf
  <2> QED
    BY <2>1
<1> HIDE DEF Due
<1>5. ASSUME NEW req \in ProposeRequest, NEW post, post = PostProposal(req, end, r)
      PROVE  Understood(req.input_hash # Malformed, end, post, Evaluate(lang, post, get, TRUE), r)
  <2>1. PICK inOrder \in BOOLEAN : inOrder = (req.input_hash # Malformed)
    OBVIOUS
  <2>2. Due(inOrder, post)
    <3>1. inOrder => post = IF end = "logged" THEN Answered(r) ELSE ErrorAnswer("internal")
      BY <1>5, <2>1 DEF PostProposal, HandleEvent, End
    <3>2. ~inOrder => post = ErrorAnswer("bad_request")
      BY <1>5, <2>1 DEF PostProposal
    <3> QED
      BY <1>4, <3>1, <3>2
  <2>3. Understood(inOrder, end, post, Expecting(Decision, lang, post, get, TRUE), r)
    BY <1>2, <1>3, <2>2
  <2> QED
    BY <2>1, <2>3, Zenon DEF Evaluate
<1>6. ASSUME NEW req \in ResolveApprovalRequest, r.body.decision = req.outcome,
             NEW post, post = PostResolveApproval(k, v, req, found, end, r)
      PROVE  Understood(req.content_id # Malformed /\ OwnReceipt(k, v, found, "Pending"),
                        end, post, ResolveApproval(lang, post, get, TRUE), r)
  <2>1. PICK inOrder \in BOOLEAN :
          inOrder = (req.content_id # Malformed /\ OwnReceipt(k, v, found, "Pending"))
    OBVIOUS
  <2>2. inOrder => post = IF end = "logged" THEN Answered(r) ELSE ErrorAnswer("internal")
    BY <1>6, <2>1
       DEF PostResolveApproval, ResolveRefusal, ApprovalRejection, OwnReceipt, HandleEvent, End
  <2>3. ~inOrder => \/ \E code \in {"bad_request", "not_found", "conflict"} : post = ErrorAnswer(code)
                    \/ end = "poisoned" /\ post = ErrorAnswer("internal")
    BY <1>6, <2>1
       DEF PostResolveApproval, ResolveRefusal, ApprovalRejection, OwnReceipt, HandleEvent, MapKernelError
  <2>4. Due(inOrder, post)
    BY <1>4, <2>2, <2>3
  <2>5. r.body.decision \in {"Approved", "Denied"}
    BY <1>6 DEF ResolveApprovalRequest
  <2>6. Understood(inOrder, end, post, Expecting({"Approved", "Denied"}, lang, post, get, TRUE), r)
    BY <1>3, <2>4, <2>5
  <2> QED
    BY <2>1, <2>6, Zenon DEF ResolveApproval
<1>7. ASSUME NEW req \in ToolExecutionRequest, r.body.decision = "Allowed",
             NEW post, post = PostToolExecution(k, v, req, found, end, r)
      PROVE  Understood(/\ Malformed \notin {req.allowed_receipt_id, req.output_hash, req.redaction}
                        /\ (req.output_hash = None) # (req.error = None)
                        /\ OwnReceipt(k, v, found, "Allowed")
                        /\ found.body.action \in Tool,
                        end, post, RecordToolExecution(lang, post, get, TRUE), r)
  <2>1. PICK inOrder \in BOOLEAN :
          inOrder = (/\ Malformed \notin {req.allowed_receipt_id, req.output_hash, req.redaction}
                     /\ (req.output_hash = None) # (req.error = None)
                     /\ OwnReceipt(k, v, found, "Allowed")
                     /\ found.body.action \in Tool)
    OBVIOUS
  <2>2. inOrder => post = IF end = "logged" THEN Answered(r) ELSE ErrorAnswer("internal")
    BY <1>7, <2>1
       DEF PostToolExecution, ToolRefusal, ToolExecutionRejection, OwnReceipt, HandleEvent, End
  <2>3. ~inOrder => \/ \E code \in {"bad_request", "not_found", "conflict"} : post = ErrorAnswer(code)
                    \/ end = "poisoned" /\ post = ErrorAnswer("internal")
    BY <1>7, <2>1
       DEF PostToolExecution, ToolRefusal, ToolExecutionRejection, OwnReceipt, HandleEvent, MapKernelError
  <2>4. Due(inOrder, post)
    BY <1>4, <2>2, <2>3
  <2>5. Understood(inOrder, end, post, Expecting({"Allowed"}, lang, post, get, TRUE), r)
    BY <1>3, <1>7, <2>4
  <2> QED
    BY <2>1, <2>5, Zenon DEF RecordToolExecution
<1> QED
  BY <1>1, <1>5, <1>6, <1>7, Zenon DEF AnswerUnderstood

\* Whatever answers are lost, cut, mixed up or untrue, the two clients agree on a decision
\* that they return after verification; the receipt that it names was fetched and its
\* signature holds, and it decides the same if the answer was one that a host gives; they
\* know whether a request was carried out, or that they cannot know; and all verifiers
\* accept the same.
THEOREM ClientsDecideAlike == SSpec => []ClientsAgree
<1>1. ASSUME NEW post, NEW get
      PROVE  \A lang \in {"py", "ts"} :
               /\ Results(lang, post, get)[1] = Expecting(Decision, lang, post, get, TRUE)
               /\ Results(lang, post, get)[2] = Expecting({"Approved", "Denied"}, lang, post, get, TRUE)
               /\ Results(lang, post, get)[3] = Expecting({"Allowed"}, lang, post, get, TRUE)
  BY DEF Results, Evaluate, ResolveApproval, RecordToolExecution
<1>2. ASSUME NEW post \in Posts, NEW get \in Gets, NEW method \in 1 .. 3,
             NEW py, py = Results("py", post, get)[method],
             NEW ts, ts = Results("ts", post, get)[method]
      PROVE  Alike(py, ts, post, get)
  <2>1. CASE method = 1
    <3>1. /\ py = Expecting(Decision, "py", post, get, TRUE)
          /\ ts = Expecting(Decision, "ts", post, get, TRUE)
      BY <1>1, <1>2, <2>1, Zenon
    <3>2. Alike(Expecting(Decision, "py", post, get, TRUE), Expecting(Decision, "ts", post, get, TRUE), post, get)
      BY Methods, Zenon
    <3> QED
      BY <3>1, <3>2, Zenon
  <2>2. CASE method = 2
    <3>1. /\ py = Expecting({"Approved", "Denied"}, "py", post, get, TRUE)
          /\ ts = Expecting({"Approved", "Denied"}, "ts", post, get, TRUE)
      BY <1>1, <1>2, <2>2, Zenon
    <3>2. Alike(Expecting({"Approved", "Denied"}, "py", post, get, TRUE), Expecting({"Approved", "Denied"}, "ts", post, get, TRUE), post, get)
      BY Methods, Zenon
    <3> QED
      BY <3>1, <3>2, Zenon
  <2>3. CASE method = 3
    <3>1. /\ py = Expecting({"Allowed"}, "py", post, get, TRUE)
          /\ ts = Expecting({"Allowed"}, "ts", post, get, TRUE)
      BY <1>1, <1>2, <2>3, Zenon
    <3>2. Alike(Expecting({"Allowed"}, "py", post, get, TRUE), Expecting({"Allowed"}, "ts", post, get, TRUE), post, get)
      BY Methods, Zenon
    <3> QED
      BY <3>1, <3>2, Zenon
  <2> QED
    BY <2>1, <2>2, <2>3
<1>3. DecisionsAlike
  BY <1>2 DEF DecisionsAlike, Alike
<1>4. CliAgrees
  BY DEF CliAgrees, VerifyCli, VerifyJson, VerifyReceipt, Verifies, Rejected
<1>5. ClientsAgree
  BY <1>3, <1>4, HostIsUnderstood DEF ClientsAgree
<1> QED
  BY <1>5, PTL

-----------------------------------------------------------------------------
(* Tokens.                                                                 *)

\* Sixteen different letters.
SixteenLetters(s) ==
  /\ Len(s) = 16 /\ DOMAIN s = 1 .. 16 /\ s \in Seq(Letter)
  /\ \A m, n \in 1 .. 16 : s[m] = s[n] => m = n

LEMMA TwoAlphabets ==
  /\ SixteenLetters(LowerDigits)
  /\ SixteenLetters(UpperDigits)
  /\ \A m, n \in 1 .. 16 : LowerDigits[m] = UpperDigits[n] => m = n
<1>1. \A n \in 1 .. 16 : \/ n = 1 \/ n = 2 \/ n = 3 \/ n = 4 \/ n = 5 \/ n = 6 \/ n = 7 \/ n = 8
                         \/ n = 9 \/ n = 10 \/ n = 11 \/ n = 12 \/ n = 13 \/ n = 14 \/ n = 15 \/ n = 16
  OBVIOUS
<1>2. PICK low : low = LowerDigits
  OBVIOUS
<1>3. PICK up : up = UpperDigits
  OBVIOUS
<1>4. /\ low[1] = "0" /\ low[2] = "1" /\ low[3] = "2" /\ low[4] = "3" /\ low[5] = "4" /\ low[6] = "5"
      /\ low[7] = "6" /\ low[8] = "7" /\ low[9] = "8" /\ low[10] = "9" /\ low[11] = "a" /\ low[12] = "b"
      /\ low[13] = "c" /\ low[14] = "d" /\ low[15] = "e" /\ low[16] = "f"
  BY <1>2 DEF LowerDigits
<1>5. /\ up[1] = "0" /\ up[2] = "1" /\ up[3] = "2" /\ up[4] = "3" /\ up[5] = "4" /\ up[6] = "5"
      /\ up[7] = "6" /\ up[8] = "7" /\ up[9] = "8" /\ up[10] = "9" /\ up[11] = "A" /\ up[12] = "B"
      /\ up[13] = "C" /\ up[14] = "D" /\ up[15] = "E" /\ up[16] = "F"
  BY <1>3 DEF UpperDigits
<1>6. Len(low) = 16 /\ DOMAIN low = 1 .. 16 /\ low \in Seq(Letter)
  <2>1. Len(low) = 16
    BY <1>2 DEF LowerDigits
  <2>2. DOMAIN low = 1 .. 16
    BY <1>2 DEF LowerDigits
  <2>3. \A n \in 1 .. 16 : low[n] \in Letter
    BY <1>2, <2>2 DEF Letter, Range
  <2>4. low = [n \in 1 .. 16 |-> low[n]]
    BY <1>2, <2>2 DEF LowerDigits
  <2> QED
    BY <2>1, <2>2, <2>3, <2>4
<1>7. Len(up) = 16 /\ DOMAIN up = 1 .. 16 /\ up \in Seq(Letter)
  <2>1. Len(up) = 16
    BY <1>3 DEF UpperDigits
  <2>2. DOMAIN up = 1 .. 16
    BY <1>3 DEF UpperDigits
  <2>3. \A n \in 1 .. 16 : up[n] \in Letter
    BY <1>3, <2>2 DEF Letter, Range
  <2>4. up = [n \in 1 .. 16 |-> up[n]]
    BY <1>3, <2>2 DEF UpperDigits
  <2> QED
    BY <2>1, <2>2, <2>3, <2>4
<1>8. \A m, n \in 1 .. 16 : low[m] = low[n] => m = n
  BY <1>1, <1>4
<1>9. \A m, n \in 1 .. 16 : up[m] = up[n] => m = n
  BY <1>1, <1>5
<1>10. \A m, n \in 1 .. 16 : low[m] = up[n] => m = n
  BY <1>1, <1>4, <1>5
<1> QED
  BY <1>2, <1>3, <1>6, <1>7, <1>8, <1>9, <1>10 DEF SixteenLetters

\* A character of Lowered.
LowerOf(c) ==
  IF Contains(UpperDigits, c) THEN LowerDigits[CHOOSE n \in 1 .. Len(UpperDigits) : UpperDigits[n] = c]
  ELSE c

\* A digit is its value, whichever alphabet it is from.
LEMMA DigitIsValue ==
  ASSUME NEW c
  PROVE  /\ IsNib(c) => HexUnnib(c) \in 0 .. 15 /\ LowerOf(c) = LowerDigits[HexUnnib(c) + 1]
         /\ \A n \in 0 .. 15 : LowerOf(c) = LowerDigits[n + 1] => IsNib(c) /\ HexUnnib(c) = n
<1>1. PICK low : low = LowerDigits
  OBVIOUS
<1>2. PICK up : up = UpperDigits
  OBVIOUS
<1>3. /\ Len(up) = 16
      /\ \A m, n \in 1 .. 16 : low[m] = low[n] => m = n
      /\ \A m, n \in 1 .. 16 : up[m] = up[n] => m = n
      /\ \A m, n \in 1 .. 16 : low[m] = up[n] => m = n
  BY <1>1, <1>2, TwoAlphabets DEF SixteenLetters
<1>4. Unnibs(c) = {n \in 0 .. 15 : c = low[n + 1] \/ c = up[n + 1]}
  BY <1>1, <1>2 DEF Unnibs
<1>5. \A n \in 0 .. 15 : n + 1 \in 1 .. 16
  OBVIOUS
<1>6. \A m, n \in Unnibs(c) : m = n
  <2> SUFFICES ASSUME NEW m \in Unnibs(c), NEW n \in Unnibs(c) PROVE m = n
    OBVIOUS
  <2>1. m \in 0 .. 15 /\ n \in 0 .. 15 /\ m + 1 = n + 1
    BY <1>3, <1>4, <1>5
  <2> QED
    BY <2>1
<1>7. ASSUME NEW n \in Unnibs(c)
      PROVE  IsNib(c) /\ HexUnnib(c) = n
  BY <1>6 DEF IsNib, HexUnnib
<1>8. Contains(up, c) <=> \E n \in 1 .. 16 : up[n] = c
  BY <1>3 DEF Contains
<1>9. ASSUME NEW n \in 1 .. 16, up[n] = c
      PROVE  LowerOf(c) = low[n]
  <2>1. (CHOOSE k \in 1 .. 16 : up[k] = c) = n
    BY <1>3, <1>9
  <2> QED
    BY <1>1, <1>2, <1>3, <1>8, <1>9, <2>1 DEF LowerOf
<1>10. ~(\E n \in 1 .. 16 : up[n] = c) => LowerOf(c) = c
  BY <1>2, <1>8 DEF LowerOf
<1>11. ASSUME NEW n \in Unnibs(c)
       PROVE  LowerOf(c) = low[n + 1]
  <2>1. n \in 0 .. 15 /\ n + 1 \in 1 .. 16
    BY <1>4, <1>5
  <2>2. CASE c = up[n + 1]
    BY <1>9, <2>1, <2>2
  <2>3. CASE c = low[n + 1] /\ ~(\E k \in 1 .. 16 : up[k] = c)
    BY <1>10, <2>3
  <2>4. CASE c = low[n + 1] /\ \E k \in 1 .. 16 : up[k] = c
    <3>1. PICK k \in 1 .. 16 : up[k] = c
      BY <2>4
    <3>2. k = n + 1
      BY <1>3, <2>1, <2>4, <3>1
    <3> QED
      BY <1>9, <3>1, <3>2
  <2> QED
    BY <1>4, <2>2, <2>3, <2>4
<1>12. ASSUME IsNib(c)
       PROVE  HexUnnib(c) \in 0 .. 15 /\ LowerOf(c) = low[HexUnnib(c) + 1]
  <2>1. PICK n \in Unnibs(c) : TRUE
    BY <1>12 DEF IsNib
  <2>2. n \in 0 .. 15 /\ HexUnnib(c) = n /\ LowerOf(c) = low[n + 1]
    BY <1>4, <1>7, <1>11, <2>1
  <2> QED
    BY <2>2
<1>13. ASSUME NEW n \in 0 .. 15, LowerOf(c) = low[n + 1]
       PROVE  n \in Unnibs(c)
  <2>1. CASE \E k \in 1 .. 16 : up[k] = c
    <3>1. PICK k \in 1 .. 16 : up[k] = c
      BY <2>1
    <3>2. low[k] = low[n + 1]
      BY <1>9, <1>13, <3>1
    <3>3. k = n + 1
      BY <1>3, <1>5, <3>2
    <3> QED
      BY <1>4, <3>1, <3>3
  <2>2. CASE ~(\E k \in 1 .. 16 : up[k] = c)
    BY <1>4, <1>10, <1>13, <2>2
  <2> QED
    BY <2>1, <2>2
<1> QED
  BY <1>1, <1>7, <1>12, <1>13

LEMMA LoweredIs ==
  ASSUME NEW s \in Seq(Letter)
  PROVE  /\ Lowered(s) \in Seq(Letter)
         /\ Len(Lowered(s)) = Len(s)
         /\ \A i \in 1 .. Len(s) : Lowered(s)[i] = LowerOf(s[i])
<1>1. DOMAIN s = 1 .. Len(s) /\ Len(s) \in Nat
  OBVIOUS
<1>2. \A i \in DOMAIN s : Lowered(s)[i] = LowerOf(s[i])
  BY DEF Lowered, Transliterated, LowerOf
<1>3. ASSUME NEW i \in DOMAIN s PROVE LowerOf(s[i]) \in Letter
  <2>1. s[i] \in Letter
    OBVIOUS
  <2>2. CASE ~Contains(UpperDigits, s[i])
    BY <2>1, <2>2 DEF LowerOf
  <2>3. CASE Contains(UpperDigits, s[i])
    <3>1. \E n \in 1 .. Len(UpperDigits) : UpperDigits[n] = s[i]
      BY <2>3 DEF Contains
    <3>2. (CHOOSE n \in 1 .. Len(UpperDigits) : UpperDigits[n] = s[i]) \in 1 .. Len(UpperDigits)
      BY <3>1
    <3>3. \A n \in 1 .. Len(UpperDigits) : LowerDigits[n] \in Letter
      <4>1. PICK low : low = LowerDigits
        OBVIOUS
      <4>2. low \in Seq(Letter)
        BY <4>1, TwoAlphabets DEF SixteenLetters
      <4>3. \A n \in 1 .. Len(low) : low[n] \in Letter
        BY <4>2
      <4>4. Len(low) = 16 /\ Len(UpperDigits) = 16
        BY <4>1, TwoAlphabets DEF SixteenLetters
      <4> QED
        BY <4>1, <4>3, <4>4
    <3> QED
      BY <2>3, <3>2, <3>3 DEF LowerOf
  <2> QED
    BY <2>2, <2>3
<1>4. PICK t : t = Lowered(s)
  OBVIOUS
<1>5. DOMAIN t = 1 .. Len(s) /\ t = [i \in 1 .. Len(s) |-> t[i]]
  BY <1>1, <1>4 DEF Lowered, Transliterated
<1>6. t \in [1 .. Len(s) -> Letter]
  BY <1>1, <1>2, <1>3, <1>4, <1>5
<1>7. t \in Seq(Letter) /\ Len(t) = Len(s)
  BY <1>1, <1>6
<1> QED
  BY <1>1, <1>2, <1>4, <1>7

LEMMA OctetsAreNumbers ==
  ASSUME NEW n \in Nat, NEW a \in [1 .. n -> 0 .. 255]
  PROVE  a \in Seq(Nat) /\ Len(a) = n
<1>1. ASSUME NEW i \in 1 .. n PROVE a[i] \in Nat
  <2>1. PICK o \in 0 .. 255 : o = a[i]
    OBVIOUS
  <2>2. o \in Nat
    OBVIOUS
  <2> QED
    BY <2>1, <2>2
<1>2. a \in [1 .. n -> Nat]
  BY <1>1
<1> QED
  BY <1>2

\* What a text of n octets decodes to.
LEMMA DecodedIs ==
  ASSUME NEW s \in Seq(Letter), NEW n \in Nat
  PROVE  /\ FromHex(s, n) # Malformed =>
              /\ Len(s) = 2 * n
              /\ \A i \in 1 .. 2 * n : IsNib(s[i])
              /\ FromHex(s, n) \in [1 .. n -> 0 .. 255]
              /\ \A i \in 1 .. n : FromHex(s, n)[i] = 16 * HexUnnib(s[2 * i - 1]) + HexUnnib(s[2 * i])
         /\ Len(s) = 2 * n /\ (\A i \in 1 .. 2 * n : IsNib(s[i])) => FromHex(s, n) # Malformed
<1>1. DOMAIN s = 1 .. Len(s)
  OBVIOUS
<1> DEFINE Nibs == Len(s) = 2 * n /\ \A i \in 1 .. 2 * n : IsNib(s[i])
           out == [i \in 1 .. n |-> 16 * HexUnnib(s[2 * i - 1]) + HexUnnib(s[2 * i])]
<1>2. HexDecodeError(s, n) = "None" <=> Nibs
  BY <1>1 DEF HexDecodeError
<1>3. FromHex(s, n) = IF Nibs THEN out ELSE Malformed
  BY <1>2 DEF FromHex
<1>4. ASSUME Nibs, NEW i \in 1 .. n
      PROVE  16 * HexUnnib(s[2 * i - 1]) + HexUnnib(s[2 * i]) \in 0 .. 255
  <2>1. 2 * i - 1 \in 1 .. 2 * n /\ 2 * i \in 1 .. 2 * n
    OBVIOUS
  <2>2. HexUnnib(s[2 * i - 1]) \in 0 .. 15 /\ HexUnnib(s[2 * i]) \in 0 .. 15
    BY <1>4, <2>1, DigitIsValue
  <2>3. PICK h \in 0 .. 15, l \in 0 .. 15 : h = HexUnnib(s[2 * i - 1]) /\ l = HexUnnib(s[2 * i])
    BY <2>2
  <2>4. 16 * h + l \in 0 .. 255
    OBVIOUS
  <2> QED
    BY <2>3, <2>4
<1>5. Nibs => out \in [1 .. n -> 0 .. 255]
  BY <1>4
<1>6. Nibs => out # Malformed
  <2>1. Nibs => out \in Seq(Nat)
    BY <1>5, OctetsAreNumbers
  <2> QED
    BY <2>1, AuthAssumption
<1>7. \A i \in 1 .. n : out[i] = 16 * HexUnnib(s[2 * i - 1]) + HexUnnib(s[2 * i])
  OBVIOUS
<1> HIDE DEF out
<1> QED
  BY <1>3, <1>5, <1>6, <1>7

\* Texts of the same octets are the same but for capitals.
LEMMA SameOctets ==
  ASSUME NEW s \in Seq(Letter), NEW t \in Seq(Letter), NEW n \in Nat, FromHex(t, n) # Malformed
  PROVE  FromHex(s, n) # Malformed /\ FromHex(s, n) = FromHex(t, n) <=> Lowered(s) = Lowered(t)
<1>1. /\ Len(t) = 2 * n
      /\ \A i \in 1 .. 2 * n : IsNib(t[i])
      /\ \A i \in 1 .. n : FromHex(t, n)[i] = 16 * HexUnnib(t[2 * i - 1]) + HexUnnib(t[2 * i])
      /\ FromHex(t, n) \in [1 .. n -> 0 .. 255]
  BY DecodedIs
<1>2. ASSUME FromHex(s, n) # Malformed, FromHex(s, n) = FromHex(t, n)
      PROVE  Lowered(s) = Lowered(t)
  <2>1. /\ Len(s) = 2 * n
        /\ \A i \in 1 .. 2 * n : IsNib(s[i])
        /\ \A i \in 1 .. n : FromHex(s, n)[i] = 16 * HexUnnib(s[2 * i - 1]) + HexUnnib(s[2 * i])
    BY <1>2, DecodedIs
  <2>2. ASSUME NEW i \in 1 .. n
        PROVE  HexUnnib(s[2 * i - 1]) = HexUnnib(t[2 * i - 1]) /\ HexUnnib(s[2 * i]) = HexUnnib(t[2 * i])
    <3>1. 2 * i - 1 \in 1 .. 2 * n /\ 2 * i \in 1 .. 2 * n
      OBVIOUS
    <3>2. PICK a \in 0 .. 15, b \in 0 .. 15, c \in 0 .. 15, d \in 0 .. 15 :
            /\ a = HexUnnib(s[2 * i - 1]) /\ b = HexUnnib(s[2 * i])
            /\ c = HexUnnib(t[2 * i - 1]) /\ d = HexUnnib(t[2 * i])
      BY <1>1, <2>1, <3>1, DigitIsValue
    <3>3. 16 * a + b = 16 * c + d
      BY <1>1, <1>2, <2>1, <3>2
    <3>4. a = c /\ b = d
      BY <3>3
    <3> QED
      BY <3>2, <3>4
  <2>3. ASSUME NEW k \in 1 .. 2 * n
        PROVE  HexUnnib(s[k]) = HexUnnib(t[k])
    <3>1. PICK i \in 1 .. n : k = 2 * i - 1 \/ k = 2 * i
      <4>1. (k + 1) \div 2 \in 1 .. n /\ (k = 2 * ((k + 1) \div 2) - 1 \/ k = 2 * ((k + 1) \div 2))
        OBVIOUS
      <4> QED
        BY <4>1
    <3> QED
      BY <2>2, <3>1
  <2>4. ASSUME NEW k \in 1 .. 2 * n
        PROVE  LowerOf(s[k]) = LowerOf(t[k])
    <3>1. IsNib(s[k]) /\ IsNib(t[k])
      BY <1>1, <2>1
    <3>2. LowerOf(s[k]) = LowerDigits[HexUnnib(s[k]) + 1]
      BY <3>1, DigitIsValue
    <3>3. LowerOf(t[k]) = LowerDigits[HexUnnib(t[k]) + 1]
      BY <3>1, DigitIsValue
    <3> QED
      BY <2>3, <3>2, <3>3
  <2>5. PICK a \in Seq(Letter), b \in Seq(Letter) : a = Lowered(s) /\ b = Lowered(t)
    BY LoweredIs
  <2>6. Len(a) = 2 * n /\ Len(b) = 2 * n /\ \A k \in 1 .. 2 * n : a[k] = b[k]
    <3>1. Len(a) = 2 * n /\ \A k \in 1 .. 2 * n : a[k] = LowerOf(s[k])
      BY <2>1, <2>5, LoweredIs
    <3>2. Len(b) = 2 * n /\ \A k \in 1 .. 2 * n : b[k] = LowerOf(t[k])
      BY <1>1, <2>5, LoweredIs
    <3> QED
      BY <2>4, <3>1, <3>2
  <2>7. a = b
    BY <2>6
  <2> QED
    BY <2>5, <2>7
<1>3. ASSUME Lowered(s) = Lowered(t)
      PROVE  FromHex(s, n) # Malformed /\ FromHex(s, n) = FromHex(t, n)
  <2>1. Len(s) = 2 * n /\ \A k \in 1 .. 2 * n : LowerOf(s[k]) = LowerOf(t[k])
    BY <1>1, <1>3, LoweredIs
  <2>2. ASSUME NEW k \in 1 .. 2 * n
        PROVE  IsNib(s[k]) /\ HexUnnib(s[k]) = HexUnnib(t[k])
    <3>1. PICK v \in 0 .. 15 : v = HexUnnib(t[k]) /\ LowerOf(t[k]) = LowerDigits[v + 1]
      BY <1>1, DigitIsValue
    <3> QED
      BY <2>1, <3>1, DigitIsValue
  <2>3. FromHex(s, n) # Malformed
    BY <2>1, <2>2, DecodedIs
  <2>4. /\ FromHex(s, n) \in [1 .. n -> 0 .. 255]
        /\ \A i \in 1 .. n : FromHex(s, n)[i] = 16 * HexUnnib(s[2 * i - 1]) + HexUnnib(s[2 * i])
    BY <2>3, DecodedIs
  <2>5. ASSUME NEW i \in 1 .. n
        PROVE  FromHex(s, n)[i] = FromHex(t, n)[i]
    <3>1. 2 * i - 1 \in 1 .. 2 * n /\ 2 * i \in 1 .. 2 * n
      OBVIOUS
    <3> QED
      BY <1>1, <2>2, <2>4, <3>1
  <2>6. FromHex(s, n) = FromHex(t, n)
    BY <1>1, <2>4, <2>5
  <2> QED
    BY <2>3, <2>6
<1> QED
  BY <1>2, <1>3

\* An octet is its bits.
LEMMA BitsTell ==
  ASSUME NEW a \in 0 .. 255, NEW b \in 0 .. 255, Bits(a) = Bits(b)
  PROVE  a = b
<1>1. PICK p : p = PowerOfTwo
  OBVIOUS
<1>2. /\ p[1] = 1 /\ p[2] = 2 /\ p[3] = 4 /\ p[4] = 8 /\ p[5] = 16 /\ p[6] = 32 /\ p[7] = 64
      /\ p[8] = 128
  BY <1>1 DEF PowerOfTwo
<1>3. \A i \in 1 .. 8 : (a \div p[i]) % 2 = 1 <=> (b \div p[i]) % 2 = 1
  BY <1>1 DEF Bits
<1>4. /\ (a \div 1) % 2 = 1 <=> (b \div 1) % 2 = 1
      /\ (a \div 2) % 2 = 1 <=> (b \div 2) % 2 = 1
      /\ (a \div 4) % 2 = 1 <=> (b \div 4) % 2 = 1
      /\ (a \div 8) % 2 = 1 <=> (b \div 8) % 2 = 1
      /\ (a \div 16) % 2 = 1 <=> (b \div 16) % 2 = 1
      /\ (a \div 32) % 2 = 1 <=> (b \div 32) % 2 = 1
      /\ (a \div 64) % 2 = 1 <=> (b \div 64) % 2 = 1
      /\ (a \div 128) % 2 = 1 <=> (b \div 128) % 2 = 1
  <2>1. (a \div 1) % 2 = 1 <=> (b \div 1) % 2 = 1
    <3>1. 1 \in 1 .. 8 /\ p[1] = 1
      BY <1>2
    <3> QED
      BY <1>3, <3>1
  <2>2. (a \div 2) % 2 = 1 <=> (b \div 2) % 2 = 1
    <3>1. 2 \in 1 .. 8 /\ p[2] = 2
      BY <1>2
    <3> QED
      BY <1>3, <3>1
  <2>3. (a \div 4) % 2 = 1 <=> (b \div 4) % 2 = 1
    <3>1. 3 \in 1 .. 8 /\ p[3] = 4
      BY <1>2
    <3> QED
      BY <1>3, <3>1
  <2>4. (a \div 8) % 2 = 1 <=> (b \div 8) % 2 = 1
    <3>1. 4 \in 1 .. 8 /\ p[4] = 8
      BY <1>2
    <3> QED
      BY <1>3, <3>1
  <2>5. (a \div 16) % 2 = 1 <=> (b \div 16) % 2 = 1
    <3>1. 5 \in 1 .. 8 /\ p[5] = 16
      BY <1>2
    <3> QED
      BY <1>3, <3>1
  <2>6. (a \div 32) % 2 = 1 <=> (b \div 32) % 2 = 1
    <3>1. 6 \in 1 .. 8 /\ p[6] = 32
      BY <1>2
    <3> QED
      BY <1>3, <3>1
  <2>7. (a \div 64) % 2 = 1 <=> (b \div 64) % 2 = 1
    <3>1. 7 \in 1 .. 8 /\ p[7] = 64
      BY <1>2
    <3> QED
      BY <1>3, <3>1
  <2>8. (a \div 128) % 2 = 1 <=> (b \div 128) % 2 = 1
    <3>1. 8 \in 1 .. 8 /\ p[8] = 128
      BY <1>2
    <3> QED
      BY <1>3, <3>1
  <2> QED
    BY <2>1, <2>2, <2>3, <2>4, <2>5, <2>6, <2>7, <2>8
<1>5. ASSUME NEW o \in 0 .. 255
      PROVE  /\ o \div 1 = o
             /\ o = 2 * (o \div 2) + (o % 2)
             /\ o \div 2 = 2 * (o \div 4) + ((o \div 2) % 2)
             /\ o \div 4 = 2 * (o \div 8) + ((o \div 4) % 2)
             /\ o \div 8 = 2 * (o \div 16) + ((o \div 8) % 2)
             /\ o \div 16 = 2 * (o \div 32) + ((o \div 16) % 2)
             /\ o \div 32 = 2 * (o \div 64) + ((o \div 32) % 2)
             /\ o \div 64 = 2 * (o \div 128) + ((o \div 64) % 2)
             /\ o \div 128 \in 0 .. 1
             /\ o \div 2 \in Nat
  <2>1. o \div 1 = o /\ o = 2 * (o \div 2) + (o % 2) /\ o \div 128 \in 0 .. 1 /\ o \div 2 \in Nat
    OBVIOUS
  <2>2. o \div 2 = 2 * (o \div 4) + ((o \div 2) % 2)
    OBVIOUS
  <2>3. o \div 4 = 2 * (o \div 8) + ((o \div 4) % 2)
    OBVIOUS
  <2>4. o \div 8 = 2 * (o \div 16) + ((o \div 8) % 2)
    OBVIOUS
  <2>5. o \div 16 = 2 * (o \div 32) + ((o \div 16) % 2)
    OBVIOUS
  <2>6. o \div 32 = 2 * (o \div 64) + ((o \div 32) % 2)
    OBVIOUS
  <2>7. o \div 64 = 2 * (o \div 128) + ((o \div 64) % 2)
    OBVIOUS
  <2> QED
    BY <2>1, <2>2, <2>3, <2>4, <2>5, <2>6, <2>7
<1>6. a \div 128 = b \div 128
  BY <1>4, <1>5
<1>7. a \div 64 = b \div 64
  <2>1. PICK x \in 0 .. 1, y \in 0 .. 1 : x = (a \div 64) % 2 /\ y = (b \div 64) % 2
    OBVIOUS
  <2>2. x = y
    BY <1>4, <2>1
  <2>3. a \div 64 = 2 * (a \div 128) + x /\ b \div 64 = 2 * (b \div 128) + y
    BY <1>5, <2>1
  <2> QED
    BY <1>6, <2>2, <2>3
<1>8. a \div 32 = b \div 32
  <2>1. PICK x \in 0 .. 1, y \in 0 .. 1 : x = (a \div 32) % 2 /\ y = (b \div 32) % 2
    OBVIOUS
  <2>2. x = y
    BY <1>4, <2>1
  <2>3. a \div 32 = 2 * (a \div 64) + x /\ b \div 32 = 2 * (b \div 64) + y
    BY <1>5, <2>1
  <2> QED
    BY <1>7, <2>2, <2>3
<1>9. a \div 16 = b \div 16
  <2>1. PICK x \in 0 .. 1, y \in 0 .. 1 : x = (a \div 16) % 2 /\ y = (b \div 16) % 2
    OBVIOUS
  <2>2. x = y
    BY <1>4, <2>1
  <2>3. a \div 16 = 2 * (a \div 32) + x /\ b \div 16 = 2 * (b \div 32) + y
    BY <1>5, <2>1
  <2> QED
    BY <1>8, <2>2, <2>3
<1>10. a \div 8 = b \div 8
  <2>1. PICK x \in 0 .. 1, y \in 0 .. 1 : x = (a \div 8) % 2 /\ y = (b \div 8) % 2
    OBVIOUS
  <2>2. x = y
    BY <1>4, <2>1
  <2>3. a \div 8 = 2 * (a \div 16) + x /\ b \div 8 = 2 * (b \div 16) + y
    BY <1>5, <2>1
  <2> QED
    BY <1>9, <2>2, <2>3
<1>11. a \div 4 = b \div 4
  <2>1. PICK x \in 0 .. 1, y \in 0 .. 1 : x = (a \div 4) % 2 /\ y = (b \div 4) % 2
    OBVIOUS
  <2>2. x = y
    BY <1>4, <2>1
  <2>3. a \div 4 = 2 * (a \div 8) + x /\ b \div 4 = 2 * (b \div 8) + y
    BY <1>5, <2>1
  <2> QED
    BY <1>10, <2>2, <2>3
<1>12. a \div 2 = b \div 2
  <2>1. PICK x \in 0 .. 1, y \in 0 .. 1 : x = (a \div 2) % 2 /\ y = (b \div 2) % 2
    OBVIOUS
  <2>2. x = y
    BY <1>4, <2>1
  <2>3. a \div 2 = 2 * (a \div 4) + x /\ b \div 2 = 2 * (b \div 4) + y
    BY <1>5, <2>1
  <2> QED
    BY <1>11, <2>2, <2>3
<1> QED
  BY <1>4, <1>5, <1>12

\* The difference that ct_eq accumulates is zero only for equal tokens.
LEMMA CtEqTells ==
  ASSUME NEW n \in Nat, NEW a \in [1 .. n -> 0 .. 255], NEW b \in [1 .. n -> 0 .. 255]
  PROVE  CtEq(a, b) <=> a = b
<1>1. Len(a) = n /\ Len(b) = n /\ DOMAIN a = 1 .. n
  BY OctetsAreNumbers
<1>2. ASSUME CtEq(a, b)
      PROVE  a = b
  <2>1. ASSUME NEW i \in 1 .. n
        PROVE  a[i] = b[i]
    <3>1. SymDiff(Bits(a[i]), Bits(b[i])) = {}
      BY <1>1, <1>2 DEF CtEq
    <3>2. Bits(a[i]) = Bits(b[i])
      BY <3>1 DEF SymDiff
    <3>3. a[i] \in 0 .. 255 /\ b[i] \in 0 .. 255
      OBVIOUS
    <3> QED
      BY <3>2, <3>3, BitsTell
  <2> QED
    BY <2>1
<1>3. ASSUME a = b
      PROVE  CtEq(a, b)
  <2>1. \A i \in 1 .. n : SymDiff(Bits(a[i]), Bits(b[i])) = {}
    BY <1>3 DEF SymDiff
  <2> QED
    BY <1>1, <2>1 DEF CtEq
<1> QED
  BY <1>2, <1>3

\* trim leaves a text.
LEMMA TrimmedType ==
  ASSUME NEW s \in Seq(Letter)
  PROVE  Trimmed(s) \in Seq(Letter)
<1>1. PICK kept : kept = {i \in DOMAIN s : s[i] # " "}
  OBVIOUS
<1>2. CASE kept = {}
  <2>1. Trimmed(s) = << >>
    BY <1>1, <1>2 DEF Trimmed
  <2>2. << >> \in Seq(Letter)
    OBVIOUS
  <2> QED
    BY <2>1, <2>2
<1>3. CASE kept # {}
  <2>0. DOMAIN s = 1 .. Len(s) /\ Len(s) \in Nat
    OBVIOUS
  <2>1. kept \subseteq Nat /\ kept \subseteq 1 .. Len(s) /\ Len(s) \in Nat
    <3>1. \A i \in kept : i \in DOMAIN s
      BY <1>1
    <3>2. \A i \in kept : i \in 1 .. Len(s)
      BY <2>0, <3>1
    <3>3. \A i \in 1 .. Len(s) : i \in Nat
      BY <2>0
    <3> QED
      BY <2>0, <3>2, <3>3
  <2>2. IsFiniteSet(kept)
    <3>1. IsFiniteSet(1 .. Len(s))
      BY <2>0, FS_Interval
    <3> QED
      BY <2>1, <3>1, FS_Subset
  <2>3. PICK m \in kept : \A n \in kept : m <= n
    BY <1>3, <2>1, LeastElement
  <2>4. PICK n \in kept : \A i \in kept : i <= n
    BY <1>3, <2>1, <2>2, GreatestElement
  <2>5. m \in Nat /\ n \in Nat /\ m \in 1 .. Len(s) /\ n \in 1 .. Len(s)
    BY <2>1
  <2>6. Min(kept) = m
    <3>1. \A x \in kept : (\A y \in kept : x <= y) => x = m
      BY <2>1, <2>3
    <3> QED
      BY <2>3, <3>1 DEF Min
  <2>7. Max(kept) = n
    <3>1. \A x \in kept : (\A y \in kept : x >= y) => x = n
      BY <2>1, <2>4
    <3>2. \A y \in kept : n >= y
      BY <2>1, <2>4
    <3> QED
      BY <3>1, <3>2 DEF Max
  <2>8. Trimmed(s) = SubSeq(s, m, n)
    BY <1>1, <1>3, <2>6, <2>7 DEF Trimmed
  <2>9. SubSeq(s, m, n) \in Seq(Letter)
    BY <2>5
  <2> QED
    BY <2>8, <2>9
<1> QED
  BY <1>2, <1>3

LEMMA LettersAre ==
  /\ {"0", "1", "x", "-", " "} \subseteq Letter
  /\ \A n \in 0 .. 15 : HexNib(n) \in Letter
<1>1. LowerDigits[1] = "0" /\ LowerDigits[2] = "1"
  BY DEF LowerDigits
<1>2. PICK low : low = LowerDigits
  OBVIOUS
<1>3. DOMAIN low = 1 .. 16
  BY <1>2, TwoAlphabets DEF SixteenLetters
<1>4. \A n \in 1 .. 16 : low[n] \in Letter
  BY <1>2, <1>3 DEF Letter, Range
<1>5. 1 \in 1 .. 16 /\ 2 \in 1 .. 16 /\ \A n \in 0 .. 15 : n + 1 \in 1 .. 16
  OBVIOUS
<1>6. {"x", "-", " "} \subseteq Letter
  BY DEF Letter
<1> QED
  BY <1>1, <1>2, <1>4, <1>5, <1>6 DEF HexNib

LEMMA ToHexType ==
  ASSUME NEW n \in Nat, NEW octets \in [1 .. n -> 0 .. 255]
  PROVE  ToHex(octets) \in Seq(Letter)
<1>1. Len(octets) = n
  BY OctetsAreNumbers
<1>2. ASSUME NEW k \in 1 .. 2 * n
      PROVE  HexNib(IF k % 2 = 1 THEN octets[(k + 1) \div 2] \div 16 ELSE octets[(k + 1) \div 2] % 16) \in Letter
  <2>1. (k + 1) \div 2 \in 1 .. n
    OBVIOUS
  <2>2. PICK o \in 0 .. 255 : o = octets[(k + 1) \div 2]
    BY <2>1
  <2>3. o \div 16 \in 0 .. 15 /\ o % 16 \in 0 .. 15
    OBVIOUS
  <2> QED
    BY <2>2, <2>3, LettersAre
<1>3. PICK t : t = ToHex(octets)
  OBVIOUS
<1>4. t \in [1 .. 2 * n -> Letter]
  BY <1>1, <1>2, <1>3 DEF ToHex
<1>5. t \in Seq(Letter)
  <2>1. 2 * n \in Nat
    OBVIOUS
  <2> QED
    BY <1>4, <2>1
<1> QED
  BY <1>3, <1>5

LEMMA CapitalType ==
  ASSUME NEW s \in Seq(Letter)
  PROVE  Capital(s) \in Seq(Letter)
<1>1. PICK low, up : low = LowerDigits /\ up = UpperDigits
  OBVIOUS
<1>2. Len(low) = 16 /\ DOMAIN up = 1 .. 16
  BY <1>1, TwoAlphabets DEF SixteenLetters
<1>3. \A n \in 1 .. 16 : up[n] \in Letter
  BY <1>1, <1>2 DEF Letter, Range
<1>4. \A c \in Letter : Contains(low, c) => up[CHOOSE n \in 1 .. Len(low) : low[n] = c] \in Letter
  <2> SUFFICES ASSUME NEW c \in Letter, Contains(low, c)
               PROVE  up[CHOOSE n \in 1 .. Len(low) : low[n] = c] \in Letter
    OBVIOUS
  <2>1. \E n \in 1 .. Len(low) : low[n] = c
    BY DEF Contains
  <2>2. (CHOOSE n \in 1 .. Len(low) : low[n] = c) \in 1 .. Len(low)
    BY <2>1
  <2> QED
    BY <1>2, <1>3, <2>2
<1>5. PICK t : t = Capital(s)
  OBVIOUS
<1>6. t = [i \in DOMAIN s |-> IF Contains(low, s[i])
                              THEN up[CHOOSE n \in 1 .. Len(low) : low[n] = s[i]] ELSE s[i]]
  BY <1>1, <1>5 DEF Capital, Transliterated
<1>7. DOMAIN s = 1 .. Len(s) /\ Len(s) \in Nat /\ \A i \in 1 .. Len(s) : s[i] \in Letter
  OBVIOUS
<1>8. t \in [1 .. Len(s) -> Letter]
  BY <1>4, <1>6, <1>7
<1>9. t \in Seq(Letter)
  BY <1>7, <1>8
<1> QED
  BY <1>5, <1>9

\* Whatever is given is a text.
LEMMA GivenType ==
  ASSUME NEW g \in Given, g # Absent
  PROVE  g \in Seq(Letter)
<1> DEFINE texts == {ToHex(octets) : octets \in Tokens}
<1>1. ASSUME NEW text \in texts PROVE text \in Seq(Letter)
  <2>1. PICK octets \in Tokens : text = ToHex(octets)
    OBVIOUS
  <2>2. octets \in [1 .. Length -> 0 .. 255] /\ Length \in Nat
    BY AuthAssumption DEF Tokens
  <2> QED
    BY <2>1, <2>2, ToHexType
<1> HIDE DEF texts
<1>2. {"0", "1", "x", "-", " "} \subseteq Letter
  BY LettersAre
<1>3. CASE g \in texts
  BY <1>1, <1>3
<1>4. ASSUME NEW text \in texts, g = Capital(text) PROVE g \in Seq(Letter)
  BY <1>1, <1>4, CapitalType
<1>5. ASSUME NEW text \in texts, g = <<" ">> \o text PROVE g \in Seq(Letter)
  <2>1. PICK a \in Seq(Letter) : a = text
    BY <1>1
  <2>2. PICK c \in Letter : c = " "
    BY <1>2
  <2>3. <<c>> \o a \in Seq(Letter)
    OBVIOUS
  <2> QED
    BY <1>5, <2>1, <2>2, <2>3
<1>6. ASSUME NEW text \in texts, g = text \o <<"0">> PROVE g \in Seq(Letter)
  <2>1. PICK a \in Seq(Letter) : a = text
    BY <1>1
  <2>2. PICK c \in Letter : c = "0"
    BY <1>2
  <2>3. a \o <<c>> \in Seq(Letter)
    OBVIOUS
  <2> QED
    BY <1>6, <2>1, <2>2, <2>3
<1>7. CASE g \in {<< >>, <<"0", "x", "0", "0">>, <<"-", "1", "0", "0">>}
  <2>1. PICK zero \in Letter, one \in Letter, x \in Letter, minus \in Letter :
          zero = "0" /\ one = "1" /\ x = "x" /\ minus = "-"
    BY <1>2
  <2>2. << >> \in Seq(Letter) /\ <<zero, x, zero, zero>> \in Seq(Letter)
    OBVIOUS
  <2>3. <<minus, one, zero, zero>> \in Seq(Letter)
    OBVIOUS
  <2> QED
    BY <1>7, <2>1, <2>2, <2>3
<1>8. g \in texts \cup {Capital(text) : text \in texts}
        \cup {<<" ">> \o text : text \in texts} \cup {text \o <<"0">> : text \in texts}
        \cup {<< >>, <<"0", "x", "0", "0">>, <<"-", "1", "0", "0">>, Absent}
  BY DEF Given, texts
<1> QED
  BY <1>3, <1>4, <1>5, <1>6, <1>7, <1>8

\* The middleware lets a client in if the two texts are the same token.
LEMMA LetIn ==
  ASSUME NEW flag \in Seq(Letter) \cup {Absent}, NEW token \in Seq(Letter) \cup {Absent},
         NEW insecure \in BOOLEAN, NEW config, config = BuildAuthConfig(flag, insecure), config # Absent
  PROVE  Authorized(config, PostHeader(token)) <=>
           \/ insecure
           \/ token # Absent /\ Lowered(Trimmed(token)) = Lowered(flag)
<1>0. /\ Length \in Nat
      /\ \A s \in Seq(Nat) : s # Absent
      /\ \A s \in Seq(Letter) : s # Absent /\ [scheme |-> "Bearer", value |-> s] # Absent
  <2>1. \A s \in Seq(Letter) : [scheme |-> "Bearer", value |-> s] \in [scheme : {"Bearer"}, value : Seq(Letter)]
    OBVIOUS
  <2> QED
    BY <2>1, AuthAssumption
<1>1. CASE insecure
  <2>1. config = Insecure
    BY <1>1 DEF BuildAuthConfig
  <2>2. config.token = Absent
    BY <2>1 DEF Insecure
  <2> QED
    BY <1>1, <2>2 DEF Authorized
<1>2. CASE ~insecure
  <2>1. flag # Absent /\ flag \in Seq(Letter)
    BY <1>2 DEF BuildAuthConfig
  <2>2. PICK octets : octets = FromHex(flag, Length)
    OBVIOUS
  <2>3. octets # Malformed /\ config = WithToken(octets)
    BY <1>2, <2>1, <2>2 DEF BuildAuthConfig
  <2>4. octets \in [1 .. Length -> 0 .. 255]
    BY <1>0, <2>1, <2>2, <2>3, DecodedIs
  <2>5. octets \in Seq(Nat)
    BY <1>0, <2>4, OctetsAreNumbers
  <2>6. config.token = octets /\ config.token # Absent
    <3>1. config = [token |-> octets]
      BY <2>3 DEF WithToken
    <3> QED
      BY <1>0, <2>5, <3>1
  <2>7. CASE token = Absent
    <3>1. PostHeader(token) = Absent
      BY <2>7 DEF PostHeader
    <3> QED
      BY <1>2, <2>6, <2>7, <3>1 DEF Authorized
  <2>8. CASE token # Absent
    <3>1. PICK header : header = PostHeader(token)
      OBVIOUS
    <3>2. header = [scheme |-> "Bearer", value |-> token]
      BY <2>8, <3>1 DEF PostHeader
    <3>3. header # Absent /\ header.scheme = "Bearer" /\ header.value = token
      BY <1>0, <2>8, <3>2
    <3>4. PICK s \in Seq(Letter) : s = Trimmed(token)
      BY <2>8, TrimmedType
    <3>5. PICK provided : provided = FromHex(s, Length)
      OBVIOUS
    <3>6. Authorized(config, header) <=> provided # Malformed /\ CtEq(provided, octets)
      BY <2>6, <3>3, <3>4, <3>5 DEF Authorized
    <3>7. provided # Malformed => (CtEq(provided, octets) <=> provided = octets)
      <4>1. provided # Malformed => provided \in [1 .. Length -> 0 .. 255]
        BY <1>0, <3>5, DecodedIs
      <4> QED
        BY <1>0, <2>4, <4>1, CtEqTells
    <3>8. provided # Malformed /\ provided = octets <=> Lowered(s) = Lowered(flag)
      BY <1>0, <2>1, <2>2, <2>3, <3>5, SameOctets
    <3> QED
      BY <1>2, <2>8, <3>1, <3>4, <3>6, <3>7, <3>8
  <2> QED
    BY <2>7, <2>8
<1> QED
  BY <1>1, <1>2

\* A host that was given a token lets in exactly the clients that were given the same
\* one, however it is written, and tells the others; it is open only if it was told to
\* be: for tokens of any length (build_auth_config, ct_eq, auth_middleware).
THEOREM TokenIsAsked == SSpec => []TokenAdmits
<1> DEFINE
  Config(flag, insecure) == BuildAuthConfig(flag, insecure)
  Post(flag, insecure, token, r) == Routed(Config(flag, insecure), PostHeader(token), Answered(r))
  Right(flag, token, insecure, lang, r) ==
    Config(flag, insecure) # Absent /\ r.sig = [by |-> r.issuer, over |-> r.body] =>
      Evaluate(lang, Post(flag, insecure, token, r), Received(r), TRUE) =
        IF \/ insecure
           \/ token # Absent /\ Lowered(Trimmed(token)) = Lowered(flag)
        THEN Decided(r.body.decision, r.body, r.body)
        ELSE Raised("unauthorized")
<1>1. ASSUME NEW flag \in Given, NEW token \in Given, NEW insecure \in BOOLEAN,
             NEW lang \in Language, NEW r \in Outside
      PROVE  Right(flag, token, insecure, lang, r)
  <2> SUFFICES ASSUME BuildAuthConfig(flag, insecure) # Absent,
                      r.sig = [by |-> r.issuer, over |-> r.body]
               PROVE  Evaluate(lang, Post(flag, insecure, token, r), Received(r), TRUE) =
                        IF \/ insecure
                           \/ token # Absent /\ Lowered(Trimmed(token)) = Lowered(flag)
                        THEN Decided(r.body.decision, r.body, r.body)
                        ELSE Raised("unauthorized")
    OBVIOUS
  <2>1. PICK config : config = BuildAuthConfig(flag, insecure)
    OBVIOUS
  <2>2. PICK admitted \in BOOLEAN :
          admitted <=> \/ insecure
                       \/ token # Absent /\ Lowered(Trimmed(token)) = Lowered(flag)
    OBVIOUS
  <2>3. Authorized(config, PostHeader(token)) <=> admitted
    <3>1. flag \in Seq(Letter) \cup {Absent}
      BY GivenType
    <3>2. token \in Seq(Letter) \cup {Absent}
      BY GivenType
    <3> QED
      BY <2>1, <2>2, <3>1, <3>2, LetIn
  <2>4. r \in Envelope
    BY StoreAssumption
  <2>5. PICK post : post = Routed(config, PostHeader(token), Answered(r))
    OBVIOUS
  <2>6. CASE admitted
    <3>1. post = Answered(r)
      BY <2>3, <2>5, <2>6 DEF Routed
    <3>2. r.body.decision \in Decision
      BY <2>4, EnvelopeParts DEF Receipt
    <3>3. Evaluate(lang, post, Received(r), TRUE) = Decided(r.body.decision, r.body, r.body)
      BY <2>4, <3>1, <3>2, ClientsAccept DEF Evaluate
    <3> QED
      BY <2>1, <2>2, <2>5, <2>6, <3>3
  <2>7. CASE ~admitted
    <3>1. post = ErrorAnswer("unauthorized")
      BY <2>3, <2>5, <2>7 DEF Routed, Unauthorized
    <3>2. "unauthorized" \in ApiError
      BY DEF ApiError, StatusOf
    <3>3. Evaluate(lang, post, Received(r), TRUE) = Raised("unauthorized")
      BY <3>1, <3>2, ClientsToldErrors DEF Evaluate
    <3> QED
      BY <2>1, <2>2, <2>5, <2>7, <3>3
  <2> QED
    BY <2>6, <2>7
<1> HIDE DEF Right
<1>2. \A flag, token \in Given, insecure \in BOOLEAN, lang \in Language, r \in Outside :
        Right(flag, token, insecure, lang, r)
  BY <1>1
<1>3. TokenAdmits
  BY <1>2 DEF TokenAdmits, Right
<1> QED
  BY <1>3, PTL

-----------------------------------------------------------------------------
(* The decoders.                                                           *)

Byte(s, i) == 16 * HexUnnib(s[2 * i - 1]) + HexUnnib(s[2 * i])
Nibs(s, n) == Len(s) = 2 * n /\ \A i \in 1 .. 2 * n : IsNib(s[i])

LEMMA FromHexIs ==
  ASSUME NEW s \in Seq(Letter), NEW n \in Nat
  PROVE  FromHex(s, n) = IF Nibs(s, n) THEN [i \in 1 .. n |-> Byte(s, i)] ELSE Malformed
<1>1. DOMAIN s = 1 .. Len(s)
  OBVIOUS
<1>2. HexDecodeError(s, n) = "None" <=> Nibs(s, n)
  BY <1>1 DEF HexDecodeError, Nibs
<1> QED
  BY <1>2 DEF FromHex, Byte

LEMMA NibType == \A c : IsNib(c) => HexUnnib(c) \in 0 .. 15
BY DigitIsValue

LEMMA ByteType ==
  ASSUME NEW s, NEW i \in Nat, IsNib(s[2 * i - 1]), IsNib(s[2 * i])
  PROVE  Byte(s, i) \in Nat
<1>1. PICK h \in 0 .. 15 : h = HexUnnib(s[2 * i - 1])
  BY NibType
<1>2. PICK l \in 0 .. 15 : l = HexUnnib(s[2 * i])
  BY NibType
<1>3. 16 * h + l \in Nat
  OBVIOUS
<1> QED
  BY <1>1, <1>2, <1>3 DEF Byte

LEMMA OneMore ==
  ASSUME NEW B, NEW k \in Nat, \A i \in 1 .. k + 1 : B[i] \in Nat
  PROVE  /\ [i \in 1 .. k |-> B[i]] \in Seq(Nat)
         /\ Append([i \in 1 .. k |-> B[i]], B[k + 1]) = [i \in 1 .. k + 1 |-> B[i]]
<1>1. PICK a : a = [i \in 1 .. k |-> B[i]]
  OBVIOUS
<1>2. \A i \in 1 .. k : i \in 1 .. k + 1 /\ B[i] \in Nat
  OBVIOUS
<1>3. a \in Seq(Nat) /\ Len(a) = k /\ \A i \in 1 .. k : a[i] = B[i]
  BY <1>1, <1>2
<1>4. PICK b \in Nat : b = B[k + 1]
  OBVIOUS
<1>5. PICK c : c = Append(a, b)
  OBVIOUS
<1>6. c \in Seq(Nat) /\ Len(c) = k + 1 /\ \A i \in 1 .. k + 1 : c[i] = IF i <= k THEN a[i] ELSE b
  BY <1>3, <1>5, AppendProperties
<1>7. \A i \in 1 .. k + 1 : c[i] = B[i]
  BY <1>3, <1>4, <1>6
<1>8. DOMAIN c = 1 .. k + 1 /\ c = [i \in 1 .. k + 1 |-> c[i]]
  BY <1>6
<1>9. c = [i \in 1 .. k + 1 |-> B[i]]
  BY <1>7, <1>8
<1> QED
  BY <1>1, <1>3, <1>4, <1>5, <1>9

\* One turn of DecodeHex.
DecodeNext(s, out, i) ==
  IF out = Malformed \/ ~IsNib(s[2 * i - 1]) \/ ~IsNib(s[2 * i]) THEN Malformed
  ELSE Append(out, Byte(s, i))

LEMMA DecodeGoesOn ==
  ASSUME NEW s \in Seq(Letter), NEW n \in Nat, Len(s) = 2 * n
  PROVE  \E h \in [0 .. n -> Seq(Nat) \cup {Malformed}] :
           /\ h[0] = << >>
           /\ \A i \in 1 .. n : h[i] = DecodeNext(s, h[i - 1], i)
           /\ DecodeHex(s, n) = h[n]
<1> DEFINE S == Seq(Nat) \cup {Malformed}
<1>0. PICK order : order = [i \in 1 .. n |-> i]
  OBVIOUS
<1>15. PICK turn : turn = [i \in 1 .. n |-> [out \in S |-> DecodeNext(s, out, i)]]
  OBVIOUS
<1>16. PICK begun : begun = << >>
  OBVIOUS
<1>1. DOMAIN order = 1 .. n /\ \A i \in 1 .. n : order[i] = i
  BY <1>0
<1>2. begun \in S
  BY <1>16
<1>3. \A i \in 1 .. n : \A out \in S : turn[i][out] = DecodeNext(s, out, i)
  BY <1>15
<1>4. Steps(turn, 1 .. n, S)
  <2>1. ASSUME NEW i \in 1 .. n, NEW out \in S PROVE DecodeNext(s, out, i) \in S
    <3>1. CASE out = Malformed \/ ~IsNib(s[2 * i - 1]) \/ ~IsNib(s[2 * i])
      BY <3>1 DEF DecodeNext
    <3>2. CASE ~(out = Malformed \/ ~IsNib(s[2 * i - 1]) \/ ~IsNib(s[2 * i]))
      <4>1. PICK b \in Nat : b = Byte(s, i)
        BY <3>2, ByteType
      <4>2. out \in Seq(Nat)
        BY <3>2
      <4>3. Append(out, b) \in Seq(Nat)
        BY <4>2
      <4> QED
        BY <3>2, <4>1, <4>3 DEF DecodeNext
    <3> QED
      BY <3>1, <3>2
  <2> HIDE DEF S
  <2>2. turn \in [1 .. n -> [S -> S]]
    BY <1>15, <2>1
  <2> QED
    BY <2>2 DEF Steps
<1> HIDE DEF S
<1>5. PICK g \in [SUBSET (1 .. n) -> S] :
        /\ g[{}] = begun
        /\ \A t \in (SUBSET (1 .. n)) \ {{}} :
             /\ Max(t) \in 1 .. n
             /\ g[t \ {Max(t)}] \in S
             /\ g[t] = turn[Max(t)][g[t \ {Max(t)}]]
  <2>1. FoldsLeft(n, S, begun, turn)
    BY <1>2, <1>4, LeftFold
  <2> QED
    BY <2>1 DEF FoldsLeft
<1> DEFINE Eq(f) == f = [t \in SUBSET (1 .. n) |->
              IF t = {} THEN begun ELSE DecodeNext(s, f[t \ {Max(t)}], order[Max(t)])]
<1>6. Eq(g)
  <2>1. ASSUME NEW t \in (SUBSET (1 .. n)) \ {{}}
        PROVE  g[t] = DecodeNext(s, g[t \ {Max(t)}], order[Max(t)])
    BY <1>1, <1>3, <1>5
  <2> QED
    BY <1>5, <2>1
<1>7. PICK iter : iter = CHOOSE f : Eq(f)
  OBVIOUS
<1>8. DecodeHex(s, n) = iter[1 .. n]
  <2>1. DecodeHex(s, n) = FoldLeft(LAMBDA out, i : DecodeNext(s, out, i), begun, order)
    BY <1>0, <1>16 DEF DecodeHex, DecodeNext, Byte
  <2> QED
    BY <1>1, <1>7, <2>1 DEF FoldLeft, MapThenFoldSet
<1>9. Eq(iter)
  <2> HIDE DEF Eq
  <2> QED
    BY <1>6, <1>7
<1>10. PICK h : h = [k \in 0 .. n |-> iter[1 .. k]]
  OBVIOUS
<1>11. h[0] = begun
  <2>1. 1 .. 0 = {} /\ 0 \in 0 .. n
    OBVIOUS
  <2> QED
    BY <1>9, <1>10, <2>1
<1>12. ASSUME NEW k \in 1 .. n PROVE h[k] = DecodeNext(s, h[k - 1], k)
  <2>1. /\ (1 .. k) \in (SUBSET (1 .. n)) \ {{}}
        /\ Max(1 .. k) = k
        /\ (1 .. k) \ {k} = 1 .. (k - 1)
        /\ k \in 0 .. n /\ k - 1 \in 0 .. n
    BY MaxOfPrefix
  <2>3. \A t \in (SUBSET (1 .. n)) \ {{}} : iter[t] = DecodeNext(s, iter[t \ {Max(t)}], order[Max(t)])
    BY <1>9
  <2>4. iter[1 .. k] = DecodeNext(s, iter[(1 .. k) \ {Max(1 .. k)}], order[Max(1 .. k)])
    BY <2>1, <2>3
  <2>2. iter[1 .. k] = DecodeNext(s, iter[(1 .. k) \ {k}], k)
    BY <1>1, <2>1, <2>4
  <2> QED
    BY <1>10, <2>1, <2>2
<1>13. h \in [0 .. n -> S]
  <2>1. \A k \in 1 .. n : h[k - 1] \in S => h[k] = turn[k][h[k - 1]]
    BY <1>3, <1>12
  <2>2. DOMAIN h = 0 .. n /\ h = [k \in 0 .. n |-> h[k]]
    BY <1>10
  <2> QED
    BY <1>2, <1>4, <1>11, <2>1, <2>2, LeftTypes
<1>14. h[n] = iter[1 .. n]
  BY <1>10
<1> QED
  BY <1>8, <1>11, <1>12, <1>13, <1>14, <1>16 DEF S

LEMMA DecodeHexIs ==
  ASSUME NEW s \in Seq(Letter), NEW n \in Nat
  PROVE  DecodeHex(s, n) = FromHex(s, n)
<1>1. FromHex(s, n) = IF Nibs(s, n) THEN [i \in 1 .. n |-> Byte(s, i)] ELSE Malformed
  BY FromHexIs
<1>2. CASE Len(s) # 2 * n
  BY <1>1, <1>2 DEF DecodeHex, Nibs
<1>3. CASE Len(s) = 2 * n
  <2>1. PICK h \in [0 .. n -> Seq(Nat) \cup {Malformed}] :
          /\ h[0] = << >>
          /\ \A i \in 1 .. n : h[i] = DecodeNext(s, h[i - 1], i)
          /\ DecodeHex(s, n) = h[n]
    BY <1>3, DecodeGoesOn
  <2>2. PICK B : B = [i \in 1 .. n |-> Byte(s, i)]
    OBVIOUS
  <2> DEFINE Pair(i) == IsNib(s[2 * i - 1]) /\ IsNib(s[2 * i])
             So(k) == h[k] = IF \A i \in 1 .. k : Pair(i) THEN [i \in 1 .. k |-> B[i]] ELSE Malformed
             Good == {k \in Nat : k <= n => So(k)}
  <2>3. 0 \in Good
    <3>1. So(0)
      BY <2>1
    <3> QED
      BY <3>1
  <2>4. \A i \in 1 .. n : Pair(i) => B[i] \in Nat
    BY <2>2, ByteType
  <2>5. \A out, i : DecodeNext(s, out, i) = IF out = Malformed \/ ~Pair(i) THEN Malformed ELSE Append(out, Byte(s, i))
    BY DEF DecodeNext
  <2> HIDE DEF Pair
  <2>6. ASSUME NEW k \in Good PROVE k + 1 \in Good
    <3> SUFFICES ASSUME k + 1 <= n PROVE So(k + 1)
      OBVIOUS
    <3>1. k \in Nat /\ k <= n /\ k + 1 \in 1 .. n /\ So(k) /\ (k + 1) - 1 = k
      OBVIOUS
    <3>2. h[k + 1] = DecodeNext(s, h[k], k + 1)
      BY <2>1, <3>1
    <3>3. CASE \A i \in 1 .. k + 1 : Pair(i)
      <4>1. \A i \in 1 .. k : Pair(i)
        BY <3>1, <3>3
      <4>2. h[k] = [i \in 1 .. k |-> B[i]]
        BY <3>1, <4>1
      <4>3. \A i \in 1 .. k + 1 : B[i] \in Nat
        BY <2>4, <3>1, <3>3
      <4>8. /\ [i \in 1 .. k |-> B[i]] \in Seq(Nat)
            /\ Append([i \in 1 .. k |-> B[i]], B[k + 1]) = [i \in 1 .. k + 1 |-> B[i]]
        <5>1. k \in Nat
          BY <3>1
        <5> HIDE DEF Good
        <5> QED
          BY <4>3, <5>1, OneMore
      <4>4. h[k] \in Seq(Nat) /\ Append(h[k], B[k + 1]) = [i \in 1 .. k + 1 |-> B[i]]
        BY <4>2, <4>8
      <4>5. h[k] # Malformed
        BY <4>4, AuthAssumption
      <4>6. Pair(k + 1) /\ B[k + 1] = Byte(s, k + 1)
        BY <2>2, <3>1, <3>3
      <4>9. DecodeNext(s, h[k], k + 1) = Append(h[k], Byte(s, k + 1))
        BY <2>5, <4>5, <4>6
      <4>7. h[k + 1] = [i \in 1 .. k + 1 |-> B[i]]
        BY <3>2, <4>4, <4>6, <4>9
      <4> QED
        BY <3>3, <4>7
    <3>4. CASE ~(\A i \in 1 .. k + 1 : Pair(i))
      <4>1. (\A i \in 1 .. k : Pair(i)) => ~Pair(k + 1)
        BY <3>1, <3>4
      <4>2. h[k] = Malformed \/ ~Pair(k + 1)
        BY <3>1, <4>1
      <4>3. h[k + 1] = Malformed
        BY <2>5, <3>2, <4>2
      <4> QED
        BY <3>4, <4>3
    <3> QED
      BY <3>3, <3>4
  <2>7. Good = Nat
    <3>1. Good \in SUBSET Nat
      OBVIOUS
    <3> HIDE DEF Good
    <3> QED
      BY <2>3, <2>6, <3>1, NumberInduction
  <2>8. So(n)
    <3>1. n \in Good
      BY <2>7
    <3> QED
      BY <3>1
  <2>9. (\A i \in 1 .. n : Pair(i)) <=> \A i \in 1 .. 2 * n : IsNib(s[i])
    <3>1. ASSUME \A i \in 1 .. n : Pair(i), NEW k \in 1 .. 2 * n PROVE IsNib(s[k])
      <4>1. PICK i \in 1 .. n : k = 2 * i - 1 \/ k = 2 * i
        <5>1. (k + 1) \div 2 \in 1 .. n /\ (k = 2 * ((k + 1) \div 2) - 1 \/ k = 2 * ((k + 1) \div 2))
          OBVIOUS
        <5> QED
          BY <5>1
      <4> QED
        BY <3>1, <4>1 DEF Pair
    <3>2. ASSUME \A i \in 1 .. 2 * n : IsNib(s[i]), NEW k \in 1 .. n PROVE Pair(k)
      <4>1. 2 * k - 1 \in 1 .. 2 * n /\ 2 * k \in 1 .. 2 * n
        OBVIOUS
      <4> QED
        BY <3>2, <4>1 DEF Pair
    <3> QED
      BY <3>1, <3>2
  <2>10. [i \in 1 .. n |-> B[i]] = [i \in 1 .. n |-> Byte(s, i)]
    BY <2>2
  <2>11. DecodeHex(s, n) = IF \A i \in 1 .. 2 * n : IsNib(s[i]) THEN [i \in 1 .. n |-> Byte(s, i)] ELSE Malformed
    BY <2>1, <2>8, <2>9, <2>10
  <2> QED
    BY <1>1, <1>3, <2>11 DEF Nibs
<1> QED
  BY <1>2, <1>3

-----------------------------------------------------------------------------
(* The decoder of the Python client.                                       *)

Nibble == {c \in Letter : IsNib(c)}
Reading == [out : Seq(Nat), high : Seq(Nibble)] \cup {Malformed}

\* One turn of PyHexToBytes.
PyNext(read, c) ==
  CASE read = Malformed -> Malformed
    [] read # Malformed /\ c = " " /\ read.high = << >> -> read
    [] read # Malformed /\ IsNib(c) /\ read.high = << >> -> [read EXCEPT !.high = <<c>>]
    [] read # Malformed /\ IsNib(c) /\ read.high # << >> ->
         [out |-> Append(read.out, 16 * HexUnnib(read.high[1]) + HexUnnib(c)), high |-> << >>]
    [] OTHER -> Malformed

\* What is no digit, though one decoder or the other takes it.
Tolerated == {" ", "+", "-", "x"}

LEMMA NoDigit ==
  ASSUME NEW c \in Tolerated
  PROVE  ~IsNib(c)
<1>1. PICK low : low = LowerDigits
  OBVIOUS
<1>2. PICK up : up = UpperDigits
  OBVIOUS
<1>3. \A n \in 1 .. 16 : \/ n = 1 \/ n = 2 \/ n = 3 \/ n = 4 \/ n = 5 \/ n = 6 \/ n = 7 \/ n = 8
                        \/ n = 9 \/ n = 10 \/ n = 11 \/ n = 12 \/ n = 13 \/ n = 14 \/ n = 15 \/ n = 16
  OBVIOUS
<1>4. /\ low[1] # c /\ low[2] # c /\ low[3] # c /\ low[4] # c /\ low[5] # c /\ low[6] # c
      /\ low[7] # c /\ low[8] # c /\ low[9] # c /\ low[10] # c /\ low[11] # c /\ low[12] # c
      /\ low[13] # c /\ low[14] # c /\ low[15] # c /\ low[16] # c
  <2>1. CASE c = " "
    BY <1>1, <2>1 DEF LowerDigits
  <2>2. CASE c = "+"
    BY <1>1, <2>2 DEF LowerDigits
  <2>3. CASE c = "-"
    BY <1>1, <2>3 DEF LowerDigits
  <2>4. CASE c = "x"
    BY <1>1, <2>4 DEF LowerDigits
  <2> QED
    BY <2>1, <2>2, <2>3, <2>4 DEF Tolerated
<1>5. /\ up[1] # c /\ up[2] # c /\ up[3] # c /\ up[4] # c /\ up[5] # c /\ up[6] # c
      /\ up[7] # c /\ up[8] # c /\ up[9] # c /\ up[10] # c /\ up[11] # c /\ up[12] # c
      /\ up[13] # c /\ up[14] # c /\ up[15] # c /\ up[16] # c
  <2>1. CASE c = " "
    BY <1>2, <2>1 DEF UpperDigits
  <2>2. CASE c = "+"
    BY <1>2, <2>2 DEF UpperDigits
  <2>3. CASE c = "-"
    BY <1>2, <2>3 DEF UpperDigits
  <2>4. CASE c = "x"
    BY <1>2, <2>4 DEF UpperDigits
  <2> QED
    BY <2>1, <2>2, <2>3, <2>4 DEF Tolerated
<1>6. \A n \in 1 .. 16 : low[n] # c /\ up[n] # c
  BY <1>3, <1>4, <1>5
<1>7. \A n \in 0 .. 15 : n + 1 \in 1 .. 16
  OBVIOUS
<1>8. Unnibs(c) = {}
  BY <1>1, <1>2, <1>6, <1>7 DEF Unnibs
<1> QED
  BY <1>8 DEF IsNib

LEMMA PyNextIs ==
  ASSUME NEW read, NEW c
  PROVE  PyNext(read, c) =
           IF read = Malformed THEN Malformed
           ELSE IF c = " " /\ read.high = << >> THEN read
           ELSE IF ~IsNib(c) THEN Malformed
           ELSE IF read.high = << >> THEN [read EXCEPT !.high = <<c>>]
           ELSE [out |-> Append(read.out, 16 * HexUnnib(read.high[1]) + HexUnnib(c)), high |-> << >>]
BY NoDigit DEF PyNext, Tolerated

LEMMA PyNextType ==
  ASSUME NEW read \in Reading, NEW c \in Letter
  PROVE  PyNext(read, c) \in Reading
<1>1. CASE read = Malformed
  BY <1>1, PyNextIs DEF Reading
<1>2. CASE read # Malformed
  <2>1. read \in [out : Seq(Nat), high : Seq(Nibble)]
    BY <1>2 DEF Reading
  <2>2. PICK out \in Seq(Nat), high \in Seq(Nibble) : read = [out |-> out, high |-> high] /\ read.out = out /\ read.high = high
    BY <2>1
  <2>3. CASE c = " " /\ read.high = << >>
    BY <1>2, <2>3, PyNextIs
  <2>4. CASE ~(c = " " /\ read.high = << >>) /\ ~IsNib(c)
    BY <1>2, <2>4, PyNextIs DEF Reading
  <2>5. CASE ~(c = " " /\ read.high = << >>) /\ IsNib(c) /\ high = << >>
    <3>1. PyNext(read, c) = [read EXCEPT !.high = <<c>>]
      BY <1>2, <2>2, <2>5, PyNextIs
    <3>2. c \in Nibble
      BY <2>5 DEF Nibble
    <3>3. <<c>> \in Seq(Nibble)
      BY <3>2
    <3>4. [read EXCEPT !.high = <<c>>] = [out |-> out, high |-> <<c>>]
      BY <2>2
    <3> QED
      BY <3>1, <3>3, <3>4 DEF Reading
  <2>6. CASE ~(c = " " /\ read.high = << >>) /\ IsNib(c) /\ high # << >>
    <3>1. PyNext(read, c) = [out |-> Append(out, 16 * HexUnnib(high[1]) + HexUnnib(c)), high |-> << >>]
      BY <1>2, <2>2, <2>6, PyNextIs
    <3>2. high[1] \in Nibble
      <4>1. high \in Seq(Nibble) /\ high # << >>
        BY <2>6
      <4>2. Len(high) \in Nat /\ Len(high) # 0
        BY <4>1
      <4>3. 1 \in 1 .. Len(high)
        BY <4>2
      <4> QED
        BY <4>1, <4>3, ElementOfSeq
    <3>3. PICK h \in 0 .. 15 : h = HexUnnib(high[1])
      BY <3>2, NibType DEF Nibble
    <3>4. PICK l \in 0 .. 15 : l = HexUnnib(c)
      BY <2>6, NibType
    <3>5. Append(out, 16 * h + l) \in Seq(Nat)
      OBVIOUS
    <3>6. << >> \in Seq(Nibble)
      OBVIOUS
    <3> QED
      BY <3>1, <3>3, <3>4, <3>5, <3>6 DEF Reading
  <2> QED
    BY <2>2, <2>3, <2>4, <2>5, <2>6
<1> QED
  BY <1>1, <1>2

PyBegun == [out |-> << >>, high |-> << >>]

\* What PyHexToBytes makes of what it has read in the end.
PyEnd(s, end) ==
  IF Len(s) % 2 # 0 \/ end = Malformed THEN Malformed
  ELSE IF end.high # << >> THEN Malformed
  ELSE end.out

LEMMA PyGoesOn ==
  ASSUME NEW s \in Seq(Letter), NEW n \in Nat, Len(s) = n
  PROVE  \E h \in [0 .. n -> Reading] :
           /\ h[0] = PyBegun
           /\ \A i \in 1 .. n : h[i] = PyNext(h[i - 1], s[i])
           /\ PyHexToBytes(s) = PyEnd(s, h[n])
<1>0. PICK turn : turn = [i \in 1 .. n |-> [read \in Reading |-> PyNext(read, s[i])]]
  OBVIOUS
<1>1. DOMAIN s = 1 .. n /\ \A i \in 1 .. n : s[i] \in Letter
  OBVIOUS
<1>2. PyBegun \in Reading
  <2>1. << >> \in Seq(Nat) /\ << >> \in Seq(Nibble)
    OBVIOUS
  <2> QED
    BY <2>1 DEF PyBegun, Reading
<1>3. \A i \in 1 .. n : \A read \in Reading : turn[i][read] = PyNext(read, s[i])
  BY <1>0
<1>4. Steps(turn, 1 .. n, Reading)
  <2>1. ASSUME NEW i \in 1 .. n, NEW read \in Reading PROVE PyNext(read, s[i]) \in Reading
    BY <1>1, PyNextType
  <2>2. turn \in [1 .. n -> [Reading -> Reading]]
    BY <1>0, <2>1
  <2> QED
    BY <2>2 DEF Steps
<1>5. PICK g \in [SUBSET (1 .. n) -> Reading] :
        /\ g[{}] = PyBegun
        /\ \A t \in (SUBSET (1 .. n)) \ {{}} :
             /\ Max(t) \in 1 .. n
             /\ g[t \ {Max(t)}] \in Reading
             /\ g[t] = turn[Max(t)][g[t \ {Max(t)}]]
  <2>1. FoldsLeft(n, Reading, PyBegun, turn)
    BY <1>2, <1>4, LeftFold
  <2> QED
    BY <2>1 DEF FoldsLeft
<1> DEFINE Eq(f) == f = [t \in SUBSET (1 .. n) |->
              IF t = {} THEN PyBegun ELSE PyNext(f[t \ {Max(t)}], s[Max(t)])]
<1>6. Eq(g)
  <2>1. ASSUME NEW t \in (SUBSET (1 .. n)) \ {{}}
        PROVE  g[t] = PyNext(g[t \ {Max(t)}], s[Max(t)])
    BY <1>1, <1>3, <1>5
  <2> QED
    BY <1>5, <2>1
<1>7. PICK iter : iter = CHOOSE f : Eq(f)
  OBVIOUS
<1>8. PyHexToBytes(s) = PyEnd(s, iter[1 .. n])
  <2>1. PyHexToBytes(s) = PyEnd(s, FoldLeft(LAMBDA read, c : PyNext(read, c), PyBegun, s))
    BY DEF PyHexToBytes, PyNext, PyBegun, PyEnd
  <2>2. FoldLeft(LAMBDA read, c : PyNext(read, c), PyBegun, s) = iter[1 .. n]
    BY <1>1, <1>7 DEF FoldLeft, MapThenFoldSet
  <2> QED
    BY <2>1, <2>2
<1>9. Eq(iter)
  <2> HIDE DEF Eq
  <2> QED
    BY <1>6, <1>7
<1>10. PICK h : h = [k \in 0 .. n |-> iter[1 .. k]]
  OBVIOUS
<1>11. h[0] = PyBegun
  <2>1. 1 .. 0 = {} /\ 0 \in 0 .. n
    OBVIOUS
  <2> QED
    BY <1>9, <1>10, <2>1
<1>12. ASSUME NEW k \in 1 .. n PROVE h[k] = PyNext(h[k - 1], s[k])
  <2>1. /\ (1 .. k) \in (SUBSET (1 .. n)) \ {{}}
        /\ Max(1 .. k) = k
        /\ (1 .. k) \ {k} = 1 .. (k - 1)
        /\ k \in 0 .. n /\ k - 1 \in 0 .. n
    BY MaxOfPrefix
  <2>2. \A t \in (SUBSET (1 .. n)) \ {{}} : iter[t] = PyNext(iter[t \ {Max(t)}], s[Max(t)])
    BY <1>9
  <2>3. iter[1 .. k] = PyNext(iter[(1 .. k) \ {Max(1 .. k)}], s[Max(1 .. k)])
    BY <2>1, <2>2
  <2>4. iter[1 .. k] = PyNext(iter[(1 .. k) \ {k}], s[k])
    BY <2>1, <2>3
  <2> QED
    BY <1>10, <2>1, <2>4
<1>13. h \in [0 .. n -> Reading]
  <2>1. \A k \in 1 .. n : h[k - 1] \in Reading => h[k] = turn[k][h[k - 1]]
    BY <1>3, <1>12
  <2>2. DOMAIN h = 0 .. n /\ h = [k \in 0 .. n |-> h[k]]
    BY <1>10
  <2> QED
    BY <1>2, <1>4, <1>11, <2>1, <2>2, LeftTypes
<1>14. h[n] = iter[1 .. n]
  BY <1>10
<1> QED
  BY <1>8, <1>11, <1>12, <1>13, <1>14

LEMMA TwoByTwo ==
  ASSUME NEW m \in Nat
  PROVE  /\ 2 * m \in Nat /\ (2 * m) % 2 = 0 /\ 2 * m + 1 \in Nat
         /\ 2 * (m + 1) = (2 * m + 1) + 1 /\ 2 * (m + 1) - 1 = 2 * m + 1
         /\ ((2 * m + 1) + 1) - 1 = 2 * m + 1 /\ (2 * m + 1) - 1 = 2 * m
OBVIOUS

LEMMA TwoWithin ==
  ASSUME NEW m \in Nat, NEW n \in Nat, m + 1 <= n
  PROVE  /\ m <= n /\ m + 1 \in 1 .. n
         /\ 2 * m + 1 \in 1 .. 2 * n /\ (2 * m + 1) + 1 \in 1 .. 2 * n
OBVIOUS

LEMMA TwoOf ==
  ASSUME NEW n \in Nat, NEW i \in 1 .. n
  PROVE  /\ i \in Nat /\ 2 * i - 1 \in 1 .. 2 * i /\ 2 * i \in 1 .. 2 * i
         /\ \A j \in 1 .. 2 * i : j \in 1 .. 2 * n
OBVIOUS

LEMMA SplitByte ==
  ASSUME NEW a \in 0 .. 15, NEW b \in 0 .. 15
  PROVE  (16 * a + b) \div 16 = a /\ (16 * a + b) % 16 = b
OBVIOUS

Printed == Letter \ {" "}
Spaceless(s, n) == Len(s) = 2 * n /\ \A i \in 1 .. 2 * n : s[i] \in Printed

\* What is not printed is white space.
LEMMA PrintedIs == \A c : c \in Printed <=> c \in Letter /\ c # " "
BY DEF Printed

LEMMA PyNextPrinted ==
  ASSUME NEW read, NEW c \in Printed
  PROVE  PyNext(read, c) =
           IF read = Malformed \/ ~IsNib(c) THEN Malformed
           ELSE IF read.high = << >> THEN [read EXCEPT !.high = <<c>>]
           ELSE [out |-> Append(read.out, 16 * HexUnnib(read.high[1]) + HexUnnib(c)), high |-> << >>]
<1>1. c # " "
  BY PrintedIs
<1> QED
  BY <1>1, PyNextIs

LEMMA ReadingIs ==
  ASSUME NEW out \in Seq(Nat), NEW high \in Seq(Letter)
  PROVE  [out |-> out, high |-> high] # Malformed
<1>1. [out |-> out, high |-> high] \in [out : Seq(Nat), high : Seq(Letter)]
  OBVIOUS
<1> QED
  BY <1>1, ReadAssumption

LEMMA OneLetter ==
  ASSUME NEW c \in Letter
  PROVE  << >> \in Seq(Letter) /\ <<c>> \in Seq(Letter) /\ <<c>> # << >> /\ <<c>>[1] = c
OBVIOUS

LEMMA DigitsMakeByte ==
  ASSUME NEW c, NEW d, IsNib(c), IsNib(d)
  PROVE  16 * HexUnnib(c) + HexUnnib(d) \in Nat
<1>1. PICK x \in 0 .. 15 : x = HexUnnib(c)
  BY NibType
<1>2. PICK y \in 0 .. 15 : y = HexUnnib(d)
  BY NibType
<1>3. 16 * x + y \in Nat
  OBVIOUS
<1> QED
  BY <1>1, <1>2, <1>3

\* The first k characters are digits.
Digital(s, k) == \A i \in 1 .. k : IsNib(s[i])

LEMMA OneMoreDigit ==
  ASSUME NEW s, NEW k \in Nat
  PROVE  Digital(s, k + 1) <=> Digital(s, k) /\ IsNib(s[k + 1])
<1>1. \A i \in 1 .. k + 1 : i \in 1 .. k \/ i = k + 1
  OBVIOUS
<1>2. k + 1 \in 1 .. k + 1 /\ \A i \in 1 .. k : i \in 1 .. k + 1
  OBVIOUS
<1> QED
  BY <1>1, <1>2 DEF Digital

\* What the first m pairs stand for.
Bytes(s, m) == [i \in 1 .. m |-> Byte(s, i)]

LEMMA BytesOneMore ==
  ASSUME NEW s, NEW m \in Nat, Digital(s, 2 * m)
  PROVE  /\ Bytes(s, m) \in Seq(Nat)
         /\ \A b \in Nat : b = Byte(s, m + 1) => Append(Bytes(s, m), b) = Bytes(s, m + 1)
<1>1. ASSUME NEW i \in 1 .. m PROVE Byte(s, i) \in Nat
  <2>1. i \in Nat /\ 2 * i - 1 \in 1 .. 2 * i /\ 2 * i \in 1 .. 2 * i
        /\ \A j \in 1 .. 2 * i : j \in 1 .. 2 * m
    BY TwoOf
  <2>2. IsNib(s[2 * i - 1]) /\ IsNib(s[2 * i])
    BY <2>1 DEF Digital
  <2> QED
    BY <2>1, <2>2, ByteType
<1>2. ASSUME NEW b \in Nat, b = Byte(s, m + 1)
      PROVE  Append(Bytes(s, m), b) = Bytes(s, m + 1)
  <2>1. PICK B : B = [i \in 1 .. m + 1 |-> Byte(s, i)]
    OBVIOUS
  <2>2. \A i \in 1 .. m + 1 : i \in 1 .. m \/ i = m + 1
    OBVIOUS
  <2>3. \A i \in 1 .. m + 1 : B[i] \in Nat
    BY <1>1, <1>2, <2>1, <2>2
  <2>4. /\ [i \in 1 .. m |-> B[i]] \in Seq(Nat)
        /\ Append([i \in 1 .. m |-> B[i]], B[m + 1]) = [i \in 1 .. m + 1 |-> B[i]]
    BY <2>3, OneMore
  <2>5. /\ [i \in 1 .. m |-> B[i]] = Bytes(s, m)
        /\ [i \in 1 .. m + 1 |-> B[i]] = Bytes(s, m + 1)
        /\ B[m + 1] = b
    <3>1. m + 1 \in 1 .. m + 1 /\ \A i \in 1 .. m : i \in 1 .. m + 1
      OBVIOUS
    <3> QED
      BY <1>2, <2>1, <3>1 DEF Bytes
  <2> QED
    BY <2>4, <2>5
<1>3. Bytes(s, m) \in Seq(Nat)
  BY <1>1 DEF Bytes
<1> QED
  BY <1>2, <1>3

\* What PyHexToBytes has read after m pairs and no white space.
PyRead(s, m) == IF Digital(s, 2 * m) THEN [out |-> Bytes(s, m), high |-> << >>] ELSE Malformed

LEMMA PyReadsPair ==
  ASSUME NEW s, NEW m \in Nat, NEW c \in Printed, NEW d \in Printed,
         c = s[2 * m + 1], d = s[(2 * m + 1) + 1]
  PROVE  PyNext(PyNext(PyRead(s, m), c), d) = PyRead(s, m + 1)
<1>1. /\ 2 * m \in Nat /\ (2 * m) % 2 = 0 /\ 2 * m + 1 \in Nat
      /\ 2 * (m + 1) = (2 * m + 1) + 1 /\ 2 * (m + 1) - 1 = 2 * m + 1
      /\ ((2 * m + 1) + 1) - 1 = 2 * m + 1 /\ (2 * m + 1) - 1 = 2 * m
  BY TwoByTwo
<1>2. Digital(s, 2 * m + 1) <=> Digital(s, 2 * m) /\ IsNib(c)
  BY <1>1, OneMoreDigit
<1>3. Digital(s, (2 * m + 1) + 1) <=> Digital(s, 2 * m + 1) /\ IsNib(d)
  BY <1>1, OneMoreDigit
<1>4. Digital(s, 2 * (m + 1)) <=> Digital(s, 2 * m) /\ IsNib(c) /\ IsNib(d)
  BY <1>1, <1>2, <1>3
<1>5. Byte(s, m + 1) = 16 * HexUnnib(c) + HexUnnib(d)
  BY <1>1 DEF Byte
<1>6. ASSUME NEW out \in Seq(Nat), NEW high \in Seq(Letter)
      PROVE  [out |-> out, high |-> high] # Malformed
  BY ReadingIs
<1>9. c \in Letter /\ << >> \in Seq(Letter) /\ <<c>> \in Seq(Letter) /\ <<c>> # << >> /\ <<c>>[1] = c
  <2>1. c \in Letter
    BY PrintedIs
  <2> QED
    BY <2>1, OneLetter
<1>7. CASE ~Digital(s, 2 * m)
  <2>1. PyRead(s, m) = Malformed /\ PyRead(s, m + 1) = Malformed
    BY <1>4, <1>7 DEF PyRead
  <2>2. PyNext(Malformed, c) = Malformed /\ PyNext(Malformed, d) = Malformed
    BY PyNextPrinted
  <2> QED
    BY <2>1, <2>2
<1>8. CASE Digital(s, 2 * m)
  <2>1. PICK out \in Seq(Nat) : out = Bytes(s, m)
    BY <1>8, BytesOneMore
  <2>2. PICK e : e = << >>
    OBVIOUS
  <2>3. e \in Seq(Letter)
    BY <1>9, <2>2
  <2>4. PICK read : read = [out |-> out, high |-> e]
    OBVIOUS
  <2>5. PyRead(s, m) = read
    BY <1>8, <2>1, <2>2, <2>4 DEF PyRead
  <2>6. read # Malformed /\ read.out = out /\ read.high = << >>
    BY <1>6, <2>2, <2>3, <2>4
  <2>7. CASE ~IsNib(c)
    <3>1. PyNext(read, c) = Malformed
      BY <2>6, <2>7, PyNextPrinted
    <3>2. PyNext(Malformed, d) = Malformed
      BY PyNextPrinted
    <3> QED
      BY <1>4, <2>5, <2>7, <3>1, <3>2 DEF PyRead
  <2>8. CASE IsNib(c)
    <3>1. PyNext(read, c) = [read EXCEPT !.high = <<c>>]
      BY <2>6, <2>8, PyNextPrinted
    <3>2. PICK next : next = [out |-> out, high |-> <<c>>]
      OBVIOUS
    <3>3. PyNext(read, c) = next
      BY <2>4, <3>1, <3>2
    <3>4. <<c>> \in Seq(Letter) /\ <<c>> # << >> /\ <<c>>[1] = c
      BY <1>9
    <3>5. next # Malformed /\ next.out = out /\ next.high # << >> /\ next.high[1] = c
      BY <1>6, <3>2, <3>4
    <3>6. CASE ~IsNib(d)
      <4>1. PyNext(next, d) = Malformed
        BY <3>5, <3>6, PyNextPrinted
      <4> QED
        BY <1>4, <2>5, <3>3, <3>6, <4>1 DEF PyRead
    <3>7. CASE IsNib(d)
      <4>1. PyNext(next, d) = [out |-> Append(out, 16 * HexUnnib(c) + HexUnnib(d)), high |-> << >>]
        BY <3>5, <3>7, PyNextPrinted
      <4>2. PICK b \in Nat : b = 16 * HexUnnib(c) + HexUnnib(d)
        BY <2>8, <3>7, DigitsMakeByte
      <4>3. Append(out, b) = Bytes(s, m + 1)
        BY <1>5, <1>8, <2>1, <4>2, BytesOneMore
      <4> QED
        BY <1>4, <1>8, <2>5, <2>8, <3>3, <3>7, <4>1, <4>2, <4>3 DEF PyRead
    <3> QED
      BY <3>6, <3>7
  <2> QED
    BY <2>7, <2>8
<1> QED
  BY <1>7, <1>8

\* Without white space Python reads what Rust does.
LEMMA PyHexToBytesIs ==
  ASSUME NEW s \in Seq(Letter), NEW n \in Nat, Spaceless(s, n)
  PROVE  PyHexToBytes(s) = FromHex(s, n)
<1>1. PICK N \in Nat : N = 2 * n /\ N % 2 = 0
  BY TwoByTwo
<1>2. Len(s) = N
  BY <1>1 DEF Spaceless
<1>3. PICK h \in [0 .. N -> Reading] :
        /\ h[0] = PyBegun
        /\ \A i \in 1 .. N : h[i] = PyNext(h[i - 1], s[i])
        /\ PyHexToBytes(s) = PyEnd(s, h[N])
  BY <1>2, PyGoesOn
<1> DEFINE Good == {m \in Nat : m <= n => h[2 * m] = PyRead(s, m)}
<1>4. 0 \in Good
  <2>1. Bytes(s, 0) = << >> /\ Digital(s, 2 * 0) /\ 2 * 0 = 0 /\ 0 \in Nat
    BY DEF Bytes, Digital
  <2>2. h[2 * 0] = PyRead(s, 0)
    BY <1>3, <2>1 DEF PyBegun, PyRead
  <2> QED
    BY <2>1, <2>2
<1>5. ASSUME NEW m \in Good PROVE m + 1 \in Good
  <2> SUFFICES ASSUME m + 1 <= n PROVE h[2 * (m + 1)] = PyRead(s, m + 1)
    OBVIOUS
  <2>1. m \in Nat /\ m + 1 <= n
    OBVIOUS
  <2>2. /\ m <= n /\ m + 1 \in 1 .. n
        /\ 2 * m + 1 \in 1 .. 2 * n /\ (2 * m + 1) + 1 \in 1 .. 2 * n
    BY <2>1, TwoWithin
  <2>3. /\ 2 * m \in Nat /\ (2 * m) % 2 = 0 /\ 2 * m + 1 \in Nat
        /\ 2 * (m + 1) = (2 * m + 1) + 1 /\ 2 * (m + 1) - 1 = 2 * m + 1
        /\ ((2 * m + 1) + 1) - 1 = 2 * m + 1 /\ (2 * m + 1) - 1 = 2 * m
    BY <2>1, TwoByTwo
  <2>4. h[2 * m] = PyRead(s, m)
    BY <2>2
  <2> HIDE DEF Good
  <2>5. PICK c \in Printed : c = s[2 * m + 1]
    BY <2>2 DEF Spaceless
  <2>6. PICK d \in Printed : d = s[(2 * m + 1) + 1]
    BY <2>2 DEF Spaceless
  <2>7. h[2 * m + 1] = PyNext(h[2 * m], c)
    BY <1>1, <1>3, <2>2, <2>3, <2>5
  <2>8. h[(2 * m + 1) + 1] = PyNext(h[2 * m + 1], d)
    BY <1>1, <1>3, <2>2, <2>3, <2>6
  <2>9. PyNext(PyNext(PyRead(s, m), c), d) = PyRead(s, m + 1)
    BY <2>1, <2>5, <2>6, PyReadsPair
  <2> QED
    BY <2>3, <2>4, <2>7, <2>8, <2>9
<1>6. Good = Nat
  <2>1. Good \in SUBSET Nat
    OBVIOUS
  <2> HIDE DEF Good
  <2> QED
    BY <1>4, <1>5, <2>1, NumberInduction
<1>7. h[N] = PyRead(s, n)
  <2>1. n \in Good /\ n <= n
    BY <1>6
  <2> QED
    BY <1>1, <2>1
<1>8. FromHex(s, n) = IF Digital(s, 2 * n) THEN Bytes(s, n) ELSE Malformed
  <2>1. FromHex(s, n) = IF Nibs(s, n) THEN [i \in 1 .. n |-> Byte(s, i)] ELSE Malformed
    BY FromHexIs
  <2>2. Nibs(s, n) <=> Digital(s, 2 * n)
    BY DEF Nibs, Digital, Spaceless
  <2> QED
    BY <2>1, <2>2 DEF Bytes
<1>9. CASE Digital(s, 2 * n)
  <2>1. PICK out \in Seq(Nat) : out = Bytes(s, n)
    BY <1>9, BytesOneMore
  <2>2. PICK read : read = [out |-> out, high |-> << >>]
    OBVIOUS
  <2>3. read # Malformed /\ read.out = out /\ read.high = << >>
    <3>1. PICK e : e = << >>
      OBVIOUS
    <3>2. e \in Seq(Letter)
      BY <3>1
    <3>3. [out |-> out, high |-> e] # Malformed
      BY <3>2, ReadingIs
    <3> QED
      BY <2>2, <3>1, <3>3
  <2>4. PyEnd(s, read) = out
    BY <1>1, <1>2, <2>3 DEF PyEnd
  <2> QED
    BY <1>3, <1>7, <1>8, <1>9, <2>1, <2>2, <2>4 DEF PyRead
<1>10. CASE ~Digital(s, 2 * n)
  <2>1. PyEnd(s, Malformed) = Malformed
    BY DEF PyEnd
  <2> QED
    BY <1>3, <1>7, <1>8, <1>10, <2>1 DEF PyRead
<1> QED
  BY <1>9, <1>10

-----------------------------------------------------------------------------
(* The decoder in TypeScript, and what is written again.                   *)

LEMMA PairParsed ==
  ASSUME NEW a, NEW b, IsNib(a), IsNib(b)
  PROVE  ParseInt(a, b) = {16 * HexUnnib(a) + HexUnnib(b)}
<1>1. a \notin Tolerated /\ b \notin Tolerated
  BY NoDigit
<1> QED
  BY <1>1 DEF ParseInt, Tolerated

\* TypeScript reads what Rust reads.
LEMMA TsHexToBytesIs ==
  ASSUME NEW s \in Seq(Letter), NEW n \in Nat, FromHex(s, n) # Malformed
  PROVE  TsHexToBytes(s) = FromHex(s, n)
<1>1. Nibs(s, n) /\ FromHex(s, n) = [i \in 1 .. n |-> Byte(s, i)]
  BY FromHexIs
<1>2. Len(s) = 2 * n /\ Len(s) % 2 = 0 /\ Len(s) \div 2 = n
  BY <1>1 DEF Nibs
<1>3. ASSUME NEW i \in 1 .. n
      PROVE  ParseInt(s[2 * i - 1], s[2 * i]) = {Byte(s, i)}
  <2>1. 2 * i - 1 \in 1 .. 2 * n /\ 2 * i \in 1 .. 2 * n
    OBVIOUS
  <2>2. IsNib(s[2 * i - 1]) /\ IsNib(s[2 * i])
    BY <1>1, <2>1 DEF Nibs
  <2> QED
    BY <2>2, PairParsed DEF Byte
<1>4. ASSUME NEW i \in 1 .. n PROVE (CHOOSE o \in ParseInt(s[2 * i - 1], s[2 * i]) : TRUE) = Byte(s, i)
  <2>1. PICK P : P = ParseInt(s[2 * i - 1], s[2 * i])
    OBVIOUS
  <2>2. PICK b : b = Byte(s, i)
    OBVIOUS
  <2>3. P = {b}
    BY <1>3, <2>1, <2>2
  <2>4. (CHOOSE o \in P : TRUE) \in P
    BY <2>3
  <2>5. (CHOOSE o \in P : TRUE) = b
    BY <2>3, <2>4
  <2> QED
    BY <2>1, <2>2, <2>5
<1>5. ~(\E i \in 1 .. n : ParseInt(s[2 * i - 1], s[2 * i]) = {})
  BY <1>3
<1>6. TsHexToBytes(s) = [i \in 1 .. n |-> CHOOSE o \in ParseInt(s[2 * i - 1], s[2 * i]) : TRUE]
  BY <1>2, <1>5 DEF TsHexToBytes
<1> QED
  BY <1>1, <1>4, <1>6

\* What was read is written as it was, in small letters.
LEMMA WrittenAgain ==
  ASSUME NEW s \in Seq(Letter), NEW n \in Nat, FromHex(s, n) # Malformed
  PROVE  ToHex(FromHex(s, n)) = Lowered(s)
<1>1. Nibs(s, n) /\ FromHex(s, n) = [i \in 1 .. n |-> Byte(s, i)]
  BY FromHexIs
<1>2. FromHex(s, n) \in [1 .. n -> 0 .. 255]
  BY DecodedIs
<1>3. PICK o \in [1 .. n -> 0 .. 255] : o = FromHex(s, n)
  BY <1>2
<1>4. Len(o) = n
  BY OctetsAreNumbers
<1>5. Lowered(s) \in Seq(Letter) /\ Len(Lowered(s)) = Len(s) /\ \A i \in 1 .. Len(s) : Lowered(s)[i] = LowerOf(s[i])
  BY LoweredIs
<1>6. PICK t \in Seq(Letter) : t = Lowered(s)
  BY <1>5
<1>7. Len(t) = 2 * n /\ \A k \in 1 .. 2 * n : t[k] = LowerOf(s[k])
  BY <1>1, <1>5, <1>6 DEF Nibs
<1>8. ASSUME NEW i \in 1 .. n
      PROVE  HexNib(o[i] \div 16) = t[2 * i - 1] /\ HexNib(o[i] % 16) = t[2 * i]
  <2>1. 2 * i - 1 \in 1 .. 2 * n /\ 2 * i \in 1 .. 2 * n
    OBVIOUS
  <2>2. IsNib(s[2 * i - 1]) /\ IsNib(s[2 * i])
    BY <1>1, <2>1 DEF Nibs
  <2>3. PICK a \in 0 .. 15 : a = HexUnnib(s[2 * i - 1]) /\ LowerOf(s[2 * i - 1]) = LowerDigits[a + 1]
    BY <2>2, DigitIsValue
  <2>4. PICK b \in 0 .. 15 : b = HexUnnib(s[2 * i]) /\ LowerOf(s[2 * i]) = LowerDigits[b + 1]
    BY <2>2, DigitIsValue
  <2>5. o[i] = 16 * a + b
    BY <1>1, <1>3, <2>3, <2>4 DEF Byte
  <2>6. (16 * a + b) \div 16 = a /\ (16 * a + b) % 16 = b
    BY SplitByte
  <2> QED
    BY <1>7, <2>1, <2>3, <2>4, <2>5, <2>6 DEF HexNib
<1>9. ToHex(o) = [k \in 1 .. 2 * n |->
                    IF k % 2 = 1 THEN HexNib(o[(k + 1) \div 2] \div 16) ELSE HexNib(o[(k + 1) \div 2] % 16)]
  BY <1>4 DEF ToHex
<1>10. ASSUME NEW k \in 1 .. 2 * n
       PROVE  (IF k % 2 = 1 THEN HexNib(o[(k + 1) \div 2] \div 16) ELSE HexNib(o[(k + 1) \div 2] % 16)) = t[k]
  <2>1. PICK i \in 1 .. n : i = (k + 1) \div 2 /\ (k = 2 * i - 1 \/ k = 2 * i)
    <3>1. (k + 1) \div 2 \in 1 .. n /\ (k = 2 * ((k + 1) \div 2) - 1 \/ k = 2 * ((k + 1) \div 2))
      OBVIOUS
    <3> QED
      BY <3>1
  <2>2. CASE k = 2 * i - 1
    <3>1. k % 2 = 1
      BY <2>2
    <3> QED
      BY <1>8, <2>1, <2>2, <3>1
  <2>3. CASE k = 2 * i
    <3>1. k % 2 # 1
      BY <2>3
    <3> QED
      BY <1>8, <2>1, <2>3, <3>1
  <2> QED
    BY <2>1, <2>2, <2>3
<1>11. ToHex(o) = [k \in 1 .. 2 * n |-> t[k]]
  BY <1>9, <1>10
<1>12. DOMAIN t = 1 .. 2 * n
  BY <1>7
<1>13. t = [k \in 1 .. 2 * n |-> t[k]]
  BY <1>12
<1> QED
  BY <1>3, <1>6, <1>11, <1>13

LEMMA NibOfDigit ==
  ASSUME NEW d \in 0 .. 15
  PROVE  IsNib(HexNib(d)) /\ HexUnnib(HexNib(d)) = d
<1>1. PICK low : low = LowerDigits
  OBVIOUS
<1>2. PICK up : up = UpperDigits
  OBVIOUS
<1>3. /\ \A m, n \in 1 .. 16 : low[m] = low[n] => m = n
      /\ \A m, n \in 1 .. 16 : low[m] = up[n] => m = n
  BY <1>1, <1>2, TwoAlphabets DEF SixteenLetters
<1>4. PICK c : c = low[d + 1]
  OBVIOUS
<1>5. HexNib(d) = c
  BY <1>1, <1>4 DEF HexNib
<1>6. Unnibs(c) = {n \in 0 .. 15 : c = low[n + 1] \/ c = up[n + 1]}
  BY <1>1, <1>2 DEF Unnibs
<1>7. ASSUME NEW n \in Unnibs(c) PROVE n = d
  <2>1. n \in 0 .. 15 /\ n + 1 \in 1 .. 16 /\ d + 1 \in 1 .. 16 /\ (c = low[n + 1] \/ c = up[n + 1])
    BY <1>6
  <2>2. d + 1 = n + 1
    BY <1>3, <1>4, <2>1
  <2> QED
    BY <2>1, <2>2
<1>8. d \in Unnibs(c)
  BY <1>4, <1>6
<1> QED
  BY <1>5, <1>7, <1>8 DEF IsNib, HexUnnib

\* What is written is read again.
LEMMA ReadAgain ==
  ASSUME NEW n \in Nat, NEW o \in [1 .. n -> 0 .. 255]
  PROVE  FromHex(ToHex(o), n) = o
<1>1. ToHex(o) \in Seq(Letter)
  BY ToHexType
<1>2. PICK s \in Seq(Letter) : s = ToHex(o)
  BY <1>1
<1>3. Len(o) = n
  BY OctetsAreNumbers
<1>4. s = [k \in 1 .. 2 * n |->
             IF k % 2 = 1 THEN HexNib(o[(k + 1) \div 2] \div 16) ELSE HexNib(o[(k + 1) \div 2] % 16)]
  BY <1>2, <1>3 DEF ToHex
<1>5. Len(s) = 2 * n
  <2>1. DOMAIN s = 1 .. 2 * n /\ 2 * n \in Nat
    BY <1>4
  <2> QED
    BY <2>1
<1>6. ASSUME NEW i \in 1 .. n
      PROVE  /\ IsNib(s[2 * i - 1]) /\ IsNib(s[2 * i])
             /\ Byte(s, i) = o[i]
  <2>1. /\ 2 * i - 1 \in 1 .. 2 * n /\ 2 * i \in 1 .. 2 * n
        /\ (2 * i - 1) % 2 = 1 /\ (2 * i) % 2 # 1
        /\ ((2 * i - 1) + 1) \div 2 = i /\ ((2 * i) + 1) \div 2 = i
    OBVIOUS
  <2>2. PICK a \in 0 .. 255 : a = o[i]
    OBVIOUS
  <2>3. s[2 * i - 1] = HexNib(a \div 16) /\ s[2 * i] = HexNib(a % 16)
    BY <1>4, <2>1, <2>2
  <2>4. a \div 16 \in 0 .. 15 /\ a % 16 \in 0 .. 15 /\ 16 * (a \div 16) + (a % 16) = a
    OBVIOUS
  <2>5. /\ IsNib(s[2 * i - 1]) /\ HexUnnib(s[2 * i - 1]) = a \div 16
        /\ IsNib(s[2 * i]) /\ HexUnnib(s[2 * i]) = a % 16
    BY <2>3, <2>4, NibOfDigit
  <2> QED
    BY <2>2, <2>4, <2>5 DEF Byte
<1>7. ASSUME NEW k \in 1 .. 2 * n PROVE IsNib(s[k])
  <2>1. PICK i \in 1 .. n : k = 2 * i - 1 \/ k = 2 * i
    <3>1. (k + 1) \div 2 \in 1 .. n /\ (k = 2 * ((k + 1) \div 2) - 1 \/ k = 2 * ((k + 1) \div 2))
      OBVIOUS
    <3> QED
      BY <3>1
  <2> QED
    BY <1>6, <2>1
<1>8. Nibs(s, n)
  BY <1>5, <1>7 DEF Nibs
<1>9. FromHex(s, n) = [i \in 1 .. n |-> Byte(s, i)]
  BY <1>8, FromHexIs
<1>10. [i \in 1 .. n |-> Byte(s, i)] = o
  BY <1>6
<1> QED
  BY <1>2, <1>9, <1>10

\* Nothing but digits is read.
LEMMA DigitsAreRead ==
  ASSUME NEW s \in Seq(Letter), NEW n \in Nat
  PROVE  FromHex(s, n) # Malformed <=>
           Len(s) = 2 * n /\ \A i \in DOMAIN s : Contains(LowerDigits, Lowered(s)[i])
<1>1. FromHex(s, n) # Malformed <=> Len(s) = 2 * n /\ \A i \in 1 .. 2 * n : IsNib(s[i])
  BY DecodedIs
<1>2. DOMAIN s = 1 .. Len(s)
  OBVIOUS
<1>3. PICK low : low = LowerDigits
  OBVIOUS
<1>4. Len(low) = 16
  BY <1>3, TwoAlphabets DEF SixteenLetters
<1>5. ASSUME NEW c PROVE Contains(low, LowerOf(c)) <=> IsNib(c)
  <2>1. Contains(low, LowerOf(c)) <=> \E k \in 1 .. 16 : low[k] = LowerOf(c)
    BY <1>4 DEF Contains
  <2>2. ASSUME IsNib(c) PROVE \E k \in 1 .. 16 : low[k] = LowerOf(c)
    <3>1. PICK v \in 0 .. 15 : v = HexUnnib(c) /\ LowerOf(c) = LowerDigits[v + 1]
      BY <2>2, DigitIsValue
    <3>2. v + 1 \in 1 .. 16
      OBVIOUS
    <3> QED
      BY <1>3, <3>1, <3>2
  <2>3. ASSUME NEW k \in 1 .. 16, low[k] = LowerOf(c) PROVE IsNib(c)
    <3>1. PICK v \in 0 .. 15 : k = v + 1
      <4>1. k - 1 \in 0 .. 15 /\ k = (k - 1) + 1
        OBVIOUS
      <4> QED
        BY <4>1
    <3> QED
      BY <1>3, <2>3, <3>1, DigitIsValue
  <2> QED
    BY <2>1, <2>2, <2>3
<1>6. \A i \in 1 .. Len(s) : Lowered(s)[i] = LowerOf(s[i])
  BY LoweredIs
<1>7. \A i \in 1 .. Len(s) : Contains(LowerDigits, Lowered(s)[i]) <=> IsNib(s[i])
  BY <1>3, <1>5, <1>6
<1> QED
  BY <1>1, <1>2, <1>7

-----------------------------------------------------------------------------
(* All decoders.                                                           *)

\* What is said of one text that is to be so many octets.
LEMMA DecodersAgree ==
  ASSUME NEW s \in Seq(Letter), NEW n \in Nat
  PROVE  LET octets == FromHex(s, n) IN
           /\ DecodeHex(s, n) = octets
           /\ octets # Malformed =>
                /\ PyHexToBytes(s) = octets
                /\ TsHexToBytes(s) = octets
                /\ ToHex(octets) = Lowered(s)
           /\ octets # Malformed <=>
                Len(s) = 2 * n /\ \A i \in DOMAIN s : Contains(LowerDigits, Lowered(s)[i])
           /\ octets = Malformed /\ Len(s) = 2 * n /\ PyHexToBytes(s) # Malformed =>
                \E i \in DOMAIN s : s[i] = " "
<1>1. PICK octets : octets = FromHex(s, n)
  OBVIOUS
<1>2. DecodeHex(s, n) = octets
  BY <1>1, DecodeHexIs
<1>3. ASSUME octets # Malformed
      PROVE  PyHexToBytes(s) = octets /\ TsHexToBytes(s) = octets /\ ToHex(octets) = Lowered(s)
  <2>1. Nibs(s, n)
    BY <1>1, <1>3, FromHexIs
  <2>2. Spaceless(s, n)
    <3>1. ASSUME NEW i \in 1 .. 2 * n PROVE s[i] \in Printed
      <4>1. IsNib(s[i])
        BY <2>1 DEF Nibs
      <4>2. s[i] \notin Tolerated
        BY <4>1, NoDigit
      <4>3. s[i] # " "
        BY <4>2 DEF Tolerated
      <4>4. s[i] \in Letter
        <5>1. Len(s) = 2 * n
          BY <2>1 DEF Nibs
        <5> QED
          BY <5>1
      <4> QED
        BY <4>3, <4>4, PrintedIs
    <3> QED
      BY <2>1, <3>1 DEF Spaceless, Nibs
  <2>3. PyHexToBytes(s) = FromHex(s, n)
    BY <2>2, PyHexToBytesIs
  <2>4. TsHexToBytes(s) = FromHex(s, n)
    BY <1>1, <1>3, TsHexToBytesIs
  <2>5. ToHex(FromHex(s, n)) = Lowered(s)
    BY <1>1, <1>3, WrittenAgain
  <2> QED
    BY <1>1, <2>3, <2>4, <2>5
<1>4. octets # Malformed <=>
        Len(s) = 2 * n /\ \A i \in DOMAIN s : Contains(LowerDigits, Lowered(s)[i])
  BY <1>1, DigitsAreRead
<1>5. ASSUME octets = Malformed, Len(s) = 2 * n, PyHexToBytes(s) # Malformed
      PROVE  \E i \in DOMAIN s : s[i] = " "
  <2>1. ~Spaceless(s, n)
    BY <1>1, <1>5, PyHexToBytesIs
  <2>2. PICK i \in 1 .. 2 * n : s[i] \notin Printed
    BY <1>5, <2>1 DEF Spaceless
  <2>3. i \in DOMAIN s /\ s[i] \in Letter
    <3>1. i \in 1 .. Len(s)
      BY <1>5
    <3> QED
      BY <3>1
  <2>4. s[i] = " "
    BY <2>2, <2>3, PrintedIs
  <2> QED
    BY <2>3, <2>4
<1> QED
  BY <1>1, <1>2, <1>3, <1>4, <1>5

\* The decoders agree on texts of any length and digests of any size.
THEOREM DecodersTell ==
  ASSUME NEW Octet \in SUBSET (0 .. 255), NEW Chars \in SUBSET Letter, NEW max \in Nat
  PROVE  HexAgrees(Octet, Chars, max)
<1>1. ASSUME NEW octets \in BoundedSeq(Octet, max)
      PROVE  FromHex(ToHex(octets), Len(octets)) = octets
  <2>1. PICK m \in 0 .. max : octets \in [1 .. m -> Octet]
    BY DEF BoundedSeq, SeqOf
  <2>2. m \in Nat /\ octets \in [1 .. m -> 0 .. 255]
    <3>1. m \in Nat
      OBVIOUS
    <3>2. \A S : Octet \subseteq S => [1 .. m -> Octet] \subseteq [1 .. m -> S]
      OBVIOUS
    <3> QED
      BY <2>1, <3>1, <3>2
  <2>3. Len(octets) = m
    BY <2>2, OctetsAreNumbers
  <2> QED
    BY <2>2, <2>3, ReadAgain
<1>2. ASSUME NEW s \in BoundedSeq(Chars, 2 * max), NEW n \in 0 .. max
      PROVE  s \in Seq(Letter) /\ n \in Nat
  <2>1. PICK m \in 0 .. 2 * max : s \in [1 .. m -> Chars]
    BY DEF BoundedSeq, SeqOf
  <2>2. m \in Nat /\ s \in [1 .. m -> Letter]
    BY <2>1
  <2>3. s \in Seq(Letter)
    BY <2>2
  <2> QED
    BY <2>3
<1>3. \A s \in BoundedSeq(Chars, 2 * max), n \in 0 .. max :
        LET octets == FromHex(s, n) IN
          /\ DecodeHex(s, n) = octets
          /\ octets # Malformed =>
               /\ PyHexToBytes(s) = octets
               /\ TsHexToBytes(s) = octets
               /\ ToHex(octets) = Lowered(s)
          /\ octets # Malformed <=>
               Len(s) = 2 * n /\ \A i \in DOMAIN s : Contains(LowerDigits, Lowered(s)[i])
          /\ octets = Malformed /\ Len(s) = 2 * n /\ PyHexToBytes(s) # Malformed =>
               \E i \in DOMAIN s : s[i] = " "
  BY <1>2, DecodersAgree
<1> QED
  BY <1>1, <1>3 DEF HexAgrees

\* What the host signs is what the verifiers hash, the encodings tell the bodies
\* apart, and digests, keys and signatures are the same octets to all of them.
THEOREM EncodersAlwaysAgree == SSpec => []EncodersAgree
<1>1. BytesAgree(Bodies)
  BY BodiesAreValues, EncodersTell
<1>2. HexAgrees(Octets, Char, Length)
  <2>1. Char \subseteq Letter
    <3>1. \A c \in {"0", "9", "a"} : \E n \in 1 .. 16 : LowerDigits[n] = c
      BY DEF LowerDigits
    <3>2. UpperDigits[16] = "F"
      BY DEF UpperDigits
    <3>3. DOMAIN LowerDigits = 1 .. 16 /\ DOMAIN UpperDigits = 1 .. 16
      BY DEF LowerDigits, UpperDigits
    <3>4. {"0", "9", "a", "F"} \subseteq Range(LowerDigits) \cup Range(UpperDigits)
      BY <3>1, <3>2, <3>3 DEF Range
    <3> QED
      BY <3>4 DEF Char, Letter
  <2> QED
    BY <2>1, AuthAssumption, DecodersTell
<1>3. EncodersAgree
  BY <1>1, <1>2 DEF EncodersAgree
<1> QED
  BY <1>3, PTL
=============================================================================
