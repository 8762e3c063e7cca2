------------------------- MODULE TnfsHandles_proof -------------------------
(***************************************************************************)
(* Proofs about TnfsHandles, for every number of files, of table entries   *)
(* and of handle ids, every size of the cache, and every sequence of       *)
(* calls, lost sessions and lost transactions.                             *)
(***************************************************************************)
EXTENDS TnfsHandles, WellFoundedInduction, TLAPS

(***************************************************************************)
(* The inductive invariant.                                                *)
(***************************************************************************)
Modes == {"r", "rw"}
Handles == [file : Files, pos : 0 .. MaxPos, mode : Modes]
Data == [file : Files, pos : Int] \cup {NoHandle}
Ops == [call : {"open", "read", "write", "seek", "close"}, f : Files, arg : Nat \cup Modes,
        pc : {"stat", "open", "seekback", "fd", "fill"}, slot : 0 .. MaxHandles, old : 0 .. MaxHandles,
        pos : 0 .. MaxPos, again : BOOLEAN, done : Nat, part : Nat, have : Nat, data : [Units -> Data]]

Typed ==
  /\ table \in [Slots -> Entries \cup {NoEntry}]
  /\ handle \in [Files -> Ids \cup {Closed}]
  /\ want \in [Files -> Nat \cup {Unknown}]
  /\ srv \in [Ids -> Handles \cup {NoHandle}]
  /\ expired \in BOOLEAN /\ troubles \in 0 .. MaxTroubles /\ mixed \subseteq Files
  /\ op \in Ops \cup {Idle}

\* What the fields of a call hold at its steps.
InOpen == op.arg \in Modes /\ op.pc \in {"stat", "open"} /\ op.old = 0 /\ op.done = 0 /\ op.part = 0
InRead == op.arg \in 1 .. MaxRead /\ (op.pc \in {"fd", "fill"} => op.done < op.arg)
Arguments ==
  op # Idle =>
    /\ op.call = "open" => InOpen
    /\ op.call = "read" => InRead
    /\ op.call = "seek" => op.arg \in 0 .. MaxPos
    /\ op.call # "read" => op.done = 0 /\ op.part = 0 /\ op.pc # "fill"
    /\ op.pc \in {"stat", "open", "seekback"} => op.done = 0 /\ op.call \notin {"write", "close"}
    /\ op.pc = "fill" => op.have < CacheSize
    /\ op.pc \in {"fd", "fill"} /\ ~ op.again => op.part = 0

\* The entries the table is searched for: all but the one of an open in progress.
Shown == IF Opening THEN UsedSlots \ {op.slot} ELSE UsedSlots

\* The entry of an open in progress, and of the recovery it is made for.
InCall ==
  /\ op # Idle => (handle[op.f] = Closed <=> op.call = "open")
  /\ Opening => /\ op.slot \in Slots
                /\ \E h \in Files : table[op.slot] = NewEntry(h) /\ (op.call = "open" \/ op.f \notin mixed => h = op.f)
                /\ op.call # "open" => op.old \in Shown /\ table[op.old].id = handle[op.f]

\* A handler that is open and shares its id with nobody; its entry is the only one
\* that is found under the id.
Clean(f) == f \in Files /\ f \notin mixed /\ handle[f] # Closed
Mine(s, f) == s \in Shown /\ table[s].id = handle[f] /\ table[s].file = f
Sole(s, f) == Mine(s, f) /\ \A t \in Shown : table[t].id = handle[f] => t = s
Alone(f) == \A g \in Files : handle[g] = handle[f] => g = f

\* What the cache and the server have for it is of its file.
OfFile(f, e, h) == e.from.file = f /\ (h = NoHandle \/ h.file = f)

\* The cache and the server's handle, if there is one, are where file_position says;
\* while it is filled the cache has its first units, and is not used yet.
Level(e, h) == (h = NoHandle \/ h.pos = e.fpos) /\ (e.avail > 0 => e.from.pos = e.fpos - e.avail)
Filled(e, have) == e.avail = 0 /\ (have > 0 => e.from.pos = e.fpos - have)

\* The entry is where the user counts on, advanced by what the call has read; a recovery
\* remembers the place until the reopened file is there.
Busy(f) == op # Idle /\ op.f = f
Recovering(f) == Busy(f) /\ op.pc \in {"stat", "open", "seekback"}
Moved(f) == IF Busy(f) THEN op.part + op.done ELSE 0
Position(e, f) == IF Recovering(f) THEN op.pos = want[f] + op.part ELSE e.pos = want[f] + Moved(f)
PlacedAt(e, f) ==
  /\ Level(e, srv[handle[f]])
  /\ Position(e, f)
  /\ Busy(f) /\ op.pc = "fill" => Filled(e, op.have)

Sound(f) ==
  Clean(f) =>
    /\ Alone(f)
    /\ \E s \in Slots : /\ Sole(s, f)
                        /\ OfFile(f, table[s], srv[handle[f]])
                        /\ want[f] # Unknown => PlacedAt(table[s], f)

\* What the buffer of a read has so far.
Buffer ==
  op # Idle /\ Clean(op.f) =>
    \A d \in Units : d < op.done => /\ op.data[d].file = op.f
                                    /\ want[op.f] # Unknown => op.data[d].pos = want[op.f] + op.part + d

Inv ==
  /\ Typed /\ Arguments /\ InCall
  /\ \A f \in Files : Sound(f)
  /\ Buffer /\ OwnFile /\ PositionKept

-----------------------------------------------------------------------------
LEMMA Parameters ==
  /\ MaxHandles \in Nat /\ CacheSize \in Nat \ {0} /\ MaxRead \in Nat \ {0}
  /\ MaxId \in Nat /\ MaxPos \in Nat /\ MaxTroubles \in Nat
BY HandlesAssumption

LEMMA Smallest ==
  ASSUME NEW S, S # {}, S \subseteq Nat
  PROVE  Min(S) \in S /\ \A y \in S : Min(S) <= y
<1>1. PICK x \in S : \A y \in S : ~ (<<y, x>> \in OpToRel(<, Nat))
  BY NatLessThanWellFounded, WFMin, Zenon
<1>2. \A y \in S : x <= y
  <2> SUFFICES ASSUME NEW y \in S PROVE x <= y
    OBVIOUS
  <2>1. y \in Nat /\ x \in Nat
    OBVIOUS
  <2>2. ~ (y < x)
    BY <1>1, <2>1, Zenon DEF OpToRel
  <2>3. QED
    BY <2>1, <2>2
<1>3. QED
  BY <1>2 DEF Min

\* Entries and handles of the server, and that the free ones are not among them.
LEMMA Records ==
  /\ \A e \in Entries : /\ e # NoEntry /\ e.id \in Ids /\ e.file \in Files /\ e.pos \in 0 .. MaxPos
                        /\ e.fpos \in 0 .. MaxPos /\ e.avail \in 0 .. CacheSize /\ e.from \in Places
  /\ \A h \in Handles : h # NoHandle /\ h.file \in Files /\ h.pos \in 0 .. MaxPos /\ h.mode \in Modes
  /\ \A p \in Places : p.file \in Files /\ p.pos \in 0 .. MaxPos
  /\ \A f \in Files : /\ NewEntry(f) \in Entries /\ NewEntry(f).file = f /\ NewEntry(f).pos = 0
                      /\ NewEntry(f).fpos = 0 /\ NewEntry(f).avail = 0 /\ NewEntry(f).from.file = f
  /\ Closed \notin Ids /\ Unknown \notin Nat /\ 0 \notin Slots
<1>1. \A e \in Entries : /\ e # NoEntry /\ e.id \in Ids /\ e.file \in Files /\ e.pos \in 0 .. MaxPos
                         /\ e.fpos \in 0 .. MaxPos /\ e.avail \in 0 .. CacheSize /\ e.from \in Places
  BY Parameters DEF Entries, NoEntry, Ids
<1>2. ASSUME NEW h \in Handles PROVE h # NoHandle /\ h.file \in Files /\ h.pos \in 0 .. MaxPos /\ h.mode \in Modes
  <2>1. "pos" \in DOMAIN h /\ h.file \in Files /\ h.pos \in 0 .. MaxPos /\ h.mode \in Modes
    BY DEF Handles
  <2>2. "pos" \notin DOMAIN NoHandle
    BY DEF NoHandle
  <2>3. QED
    BY <2>1, <2>2
<1>3. \A p \in Places : p.file \in Files /\ p.pos \in 0 .. MaxPos
  BY DEF Places
<1>4. ASSUME NEW f \in Files
      PROVE  /\ NewEntry(f) \in Entries /\ NewEntry(f).file = f /\ NewEntry(f).pos = 0
             /\ NewEntry(f).fpos = 0 /\ NewEntry(f).avail = 0 /\ NewEntry(f).from.file = f
  <2>1. At(f, 0) \in Places /\ At(f, 0).file = f
    BY Parameters DEF At, Places
  <2>2. QED
    BY <2>1, Parameters DEF NewEntry, Entries, Ids
<1>5. Closed \notin Ids /\ Unknown \notin Nat /\ 0 \notin Slots
  BY Parameters DEF Closed, Unknown, Ids, Slots
<1>6. QED
  BY <1>1, <1>2, <1>3, <1>4, <1>5

\* The call in progress.
LEMMA OpFields ==
  ASSUME NEW o \in Ops
  PROVE  /\ o # Idle /\ o.call # "none" /\ o.call \in {"open", "read", "write", "seek", "close"} /\ o.f \in Files
         /\ o.pc \in {"stat", "open", "seekback", "fd", "fill"} /\ o.slot \in 0 .. MaxHandles
         /\ o.old \in 0 .. MaxHandles /\ o.pos \in 0 .. MaxPos /\ o.done \in Nat /\ o.part \in Nat
         /\ o.have \in Nat /\ o.data \in [Units -> Data]
<1>1. /\ o.call \in {"open", "read", "write", "seek", "close"} /\ o.f \in Files
      /\ o.pc \in {"stat", "open", "seekback", "fd", "fill"} /\ o.slot \in 0 .. MaxHandles
      /\ o.old \in 0 .. MaxHandles /\ o.pos \in 0 .. MaxPos /\ o.done \in Nat /\ o.part \in Nat
      /\ o.have \in Nat /\ o.data \in [Units -> Data]
  BY DEF Ops
<1>2. Idle.call = "none"
  BY DEF Idle
<1>3. QED
  BY <1>1, <1>2

LEMMA Kinds ==
  ASSUME Typed
  PROVE  (op.call = "none" <=> op = Idle) /\ (op # Idle => op \in Ops) /\ (op = Idle => ~ Opening)
BY OpFields DEF Typed, Idle, Opening

-----------------------------------------------------------------------------
(***************************************************************************)
(* The search of the table.                                                *)
(***************************************************************************)
LEMMA Found ==
  ASSUME Typed, NEW h, get_filehandleinfo(h) # 0
  PROVE  /\ get_filehandleinfo(h) \in Slots /\ get_filehandleinfo(h) \in UsedSlots
         /\ table[get_filehandleinfo(h)] \in Entries /\ table[get_filehandleinfo(h)].id = h
<1>1. Holding(h) # {} /\ Holding(h) \subseteq Nat /\ get_filehandleinfo(h) = Min(Holding(h))
  BY DEF get_filehandleinfo, Holding, UsedSlots, Slots
<1>2. get_filehandleinfo(h) \in Holding(h)
  BY <1>1, Smallest
<1>3. QED
  BY <1>2 DEF Holding, UsedSlots, Typed

LEMMA SoleFound ==
  ASSUME Typed, ~ Opening, NEW f, NEW s \in Slots, Sole(s, f)
  PROVE  get_filehandleinfo(handle[f]) = s
<1>1. Holding(handle[f]) = {s}
  BY DEF Sole, Mine, Shown, Holding
<1>2. Holding(handle[f]) # {} /\ {s} # {} /\ {s} \subseteq Nat
  BY <1>1 DEF Slots
<1>3. Min({s}) = s
  <2>1. Min({s}) \in {s}
    BY <1>2, Smallest
  <2>2. QED
    BY <2>1
<1>4. QED
  BY <1>1, <1>2, <1>3 DEF get_filehandleinfo

\* The entry of the call in progress is its handler's own.
LEMMA OwnEntry ==
  ASSUME Inv, ~ Opening, op # Idle, Clean(op.f)
  PROVE  /\ Slot \in Slots /\ Slot # 0 /\ Sole(Slot, op.f) /\ Alone(op.f)
         /\ OfFile(op.f, table[Slot], srv[Id])
         /\ want[op.f] # Unknown => PlacedAt(table[Slot], op.f)
<1>1. op.f \in Files /\ Sound(op.f) /\ Typed
  BY Kinds, OpFields DEF Inv
<1>2. PICK s \in Slots : /\ Sole(s, op.f) /\ OfFile(op.f, table[s], srv[handle[op.f]])
                         /\ want[op.f] # Unknown => PlacedAt(table[s], op.f)
  BY <1>1 DEF Sound
<1>3. Slot = s
  BY <1>1, <1>2, SoleFound DEF Slot, Id
<1>4. QED
  BY <1>1, <1>2, <1>3, Records DEF Sound, Id

-----------------------------------------------------------------------------
(***************************************************************************)
(* What a step keeps.                                                      *)
(***************************************************************************)
LEMMA GotNothing ==
  ASSUME got' = Nothing
  PROVE  OwnFile' /\ PositionKept'
BY DEF OwnFile, PositionKept, Succeeded

LEMMA GotKept ==
  ASSUME Inv, got' = got, mixed \subseteq mixed'
  PROVE  OwnFile' /\ PositionKept'
<1>1. Succeeded' => Succeeded
  BY DEF Succeeded
<1>2. OwnFile'
  BY <1>1 DEF Inv, OwnFile
<1>3. PositionKept'
  BY <1>1 DEF Inv, PositionKept
<1>4. QED
  BY <1>2, <1>3

\* A file whose handler the step is not about.
LEMMA OtherSound ==
  ASSUME Inv, NEW g \in Files, Clean(g)' => Clean(g), handle'[g] = handle[g], want'[g] = want[g],
         ~ Busy(g), ~ Busy(g)',
         Clean(g) /\ Clean(g)' =>
           /\ \A s \in Slots : Sole(s, g) => table'[s] = table[s] /\ s \in Shown'
           /\ \A t \in Shown' : table'[t].id = handle[g] => t \in Shown /\ table[t].id = handle[g]
           /\ \A k \in Files : handle'[k] = handle[g] => handle[k] = handle[g]
           /\ srv'[handle[g]] = srv[handle[g]] \/ srv'[handle[g]] = NoHandle
  PROVE  Sound(g)'
<1> SUFFICES ASSUME Clean(g)' PROVE Sound(g)'
  BY DEF Sound
<1>1. Clean(g) /\ Sound(g)
  BY DEF Inv
<1>2. PICK s \in Slots : /\ Sole(s, g) /\ OfFile(g, table[s], srv[handle[g]])
                         /\ want[g] # Unknown => PlacedAt(table[s], g)
  BY <1>1 DEF Sound
<1>3. table'[s] = table[s] /\ s \in Shown'
  BY <1>1, <1>2
<1>4. Sole(s, g)'
  BY <1>1, <1>2, <1>3 DEF Sole, Mine
<1>5. Alone(g)'
  BY <1>1 DEF Sound, Alone
<1>6. srv'[handle'[g]] = srv[handle[g]] \/ srv'[handle'[g]] = NoHandle
  BY <1>1
<1>7. OfFile(g, table[s], srv[handle[g]])'
  BY <1>2, <1>3, <1>6 DEF OfFile
<1>8. want'[g] # Unknown => PlacedAt(table[s], g)'
  <2> SUFFICES ASSUME want'[g] # Unknown PROVE PlacedAt(table[s], g)'
    OBVIOUS
  <2>1. PlacedAt(table[s], g)
    BY <1>2
  <2>2. Level(table[s], srv[handle[g]])'
    BY <1>3, <1>6, <2>1 DEF PlacedAt, Level
  <2>3. Position(table[s], g)'
    BY <1>3, <2>1 DEF PlacedAt, Position, Recovering, Moved
  <2>4. QED
    BY <2>2, <2>3 DEF PlacedAt
<1>9. QED
  BY <1>4, <1>5, <1>7, <1>8 DEF Sound

\* A step of the call in progress on the entry it found, and on the server's handle
\* of that id.
LEMMA Touched ==
  ASSUME Inv, op # Idle, op.call # "open", ~ Opening, ~ Opening', handle' = handle, mixed' = mixed,
         op' = Idle \/ (op' \in Ops /\ op'.f = op.f /\ op'.call = op.call),
         table' \in [Slots -> Entries \cup {NoEntry}],
         \A s \in Slots : s # Slot => table'[s] = table[s],
         Slot # 0 => /\ table'[Slot] \in Entries
                     /\ table'[Slot].id = table[Slot].id /\ table'[Slot].file = table[Slot].file,
         \A i \in Ids : i # Id => srv'[i] = srv[i],
         want' \in [Files -> Nat \cup {Unknown}],
         \A g \in Files : g # op.f => want'[g] = want[g],
         Clean(op.f) => OfFile(op.f, table'[Slot], srv'[Id]),
         Clean(op.f) /\ want'[op.f] # Unknown =>
           /\ Level(table'[Slot], srv'[Id])
           /\ op' = Idle => table'[Slot].pos = want'[op.f]
           /\ op' # Idle => /\ op'.pc \in {"fd", "fill"}
                            /\ table'[Slot].pos = want'[op.f] + op'.part + op'.done
                            /\ op'.pc = "fill" => Filled(table'[Slot], op'.have)
  PROVE  InCall' /\ \A g \in Files : Sound(g)'
<1>11. PICK f \in Files : f = op.f
  BY Kinds, OpFields DEF Inv
<1>1. PICK h, s : f = op.f /\ h = handle[f] /\ s = Slot /\ h = Id
  BY <1>11 DEF Id
<1>2. Typed /\ InCall /\ h \in Ids /\ handle \in [Files -> Ids \cup {Closed}]
  <2>1. handle[f] # Closed
    BY <1>1 DEF Inv, InCall
  <2>2. Typed /\ InCall
    BY DEF Inv
  <2>3. handle \in [Files -> Ids \cup {Closed}]
    BY <2>2 DEF Typed
  <2>4. QED
    BY <1>1, <2>1, <2>2, <2>3
<1>3. s # 0 => s \in UsedSlots /\ s \in Slots /\ table[s].id = h /\ table[s] \in Entries
  BY <1>1, <1>2, Found DEF Slot
<1>4. \A t \in Slots : table'[t] # NoEntry <=> table[t] # NoEntry
  BY <1>1, <1>2, <1>3, Records
<1>5. Shown' = Shown /\ Shown = UsedSlots /\ Shown \subseteq Slots
  BY <1>4 DEF Shown, UsedSlots
<1>10. \A t \in Slots : table'[t].id = table[t].id /\ (t # s => table'[t] = table[t])
  <2>1. \A t \in Slots : t # s => table'[t] = table[t]
    BY <1>1
  <2>2. s \in Slots => s # 0 /\ table'[s].id = table[s].id
    BY <1>1, Records
  <2>3. QED
    BY <2>1, <2>2
<1>6. InCall'
  <2>1. op' # Idle => (handle'[op'.f] = Closed <=> op'.call = "open")
    BY <1>2 DEF InCall
  <2>2. QED
    BY <2>1 DEF InCall
<1>7. ASSUME NEW g \in Files, g # f PROVE Sound(g)'
  <2>1. Clean(g)' => Clean(g)
    BY DEF Clean
  <2>2. ~ Busy(g) /\ ~ Busy(g)'
    BY <1>1, <1>7 DEF Busy
  <2>3. Clean(g) => h # handle[g]
    BY <1>1, <1>7 DEF Inv, Sound, Alone
  <2>4. Clean(g) => handle[g] \in Ids
    BY <1>2 DEF Clean
  <2>5. Clean(g) => \A t \in Slots : Sole(t, g) => table'[t] = table[t] /\ t \in Shown'
    <3>1. Clean(g) => \A t \in Slots : Sole(t, g) => t \in Shown' /\ table[t].id = handle[g]
      BY <1>5 DEF Sole, Mine
    <3>2. Clean(g) => \A t \in Slots : Sole(t, g) => t # s
      BY <1>3, <2>3, <3>1, Records
    <3>3. QED
      BY <1>10, <3>1, <3>2
  <2>6. Clean(g) => \A t \in Shown' : table'[t].id = handle[g] => t \in Shown /\ table[t].id = handle[g]
    BY <1>5, <1>10
  <2>7. Clean(g) => srv'[handle[g]] = srv[handle[g]]
    BY <1>1, <2>3, <2>4
  <2>8. handle'[g] = handle[g] /\ want'[g] = want[g] /\ \A k \in Files : handle'[k] = handle[g] => handle[k] = handle[g]
    BY <1>1, <1>7
  <2>9. QED
    BY <2>1, <2>2, <2>5, <2>6, <2>7, <2>8, OtherSound
<1>8. Sound(f)'
  <2> SUFFICES ASSUME Clean(f)' PROVE Sound(f)'
    BY DEF Sound
  <2>1. Clean(f)
    BY DEF Clean
  <2>2. s \in Slots /\ s # 0 /\ Sole(s, f) /\ Alone(f)
    BY <1>1, <2>1, OwnEntry
  <2>3. Alone(f)'
    BY <2>2 DEF Alone
  <2>4. Sole(s, f)'
    <3>1. \A t \in Shown' : table'[t].id = h => t \in Shown /\ table[t].id = h
      BY <1>5, <1>10
    <3>2. s \in Shown' /\ table'[s].id = h /\ table'[s].file = f /\ \A t \in Shown : table[t].id = h => t = s
      BY <1>1, <1>5, <1>10, <2>2 DEF Sole, Mine
    <3>3. QED
      BY <1>1, <3>1, <3>2 DEF Sole, Mine
  <2>5. OfFile(f, table[s], srv[handle[f]])'
    BY <1>1, <2>1
  <2>6. ASSUME want'[f] # Unknown PROVE PlacedAt(table[s], f)'
    <3>1. /\ Level(table'[s], srv'[h])
          /\ op' = Idle => table'[s].pos = want'[f]
          /\ op' # Idle => /\ op'.pc \in {"fd", "fill"}
                           /\ table'[s].pos = want'[f] + op'.part + op'.done
                           /\ op'.pc = "fill" => Filled(table'[s], op'.have)
      BY <1>1, <2>1, <2>6
    <3>2. ~ Recovering(f)' /\ (Busy(f)' <=> op' # Idle)
      BY <1>1, <3>1 DEF Recovering, Busy
    <3>3. Position(table[s], f)'
      <4>1. op' = Idle => table'[s].pos = want'[f] + Moved(f)'
        <5>1. s \in Slots /\ table'[s] \in Entries
          BY <1>1, <2>2
        <5>2. PICK w : w = table'[s].pos
          OBVIOUS
        <5>3. w \in Nat
          BY <5>1, <5>2, Records
        <5>4. QED
          BY <3>1, <3>2, <5>2, <5>3 DEF Moved
      <4>2. op' # Idle => table'[s].pos = want'[f] + Moved(f)'
        <5>1. ASSUME op' # Idle PROVE table'[s].pos = want'[f] + Moved(f)'
          <6>1. PICK a, b, w : a = op'.part /\ b = op'.done /\ w = want'[f]
            OBVIOUS
          <6>2. Moved(f)' = a + b
            BY <3>2, <5>1, <6>1 DEF Moved
          <6>3. table'[s].pos = w + a + b
            BY <3>1, <5>1, <6>1
          <6>4. a \in Nat /\ b \in Nat /\ w \in Nat
            BY <2>6, <5>1, <6>1, OpFields
          <6>5. QED
            BY <6>1, <6>2, <6>3, <6>4
        <5>2. QED
          BY <5>1
      <4>3. QED
        BY <3>2, <4>1, <4>2 DEF Position
    <3>4. Busy(f)' /\ op'.pc = "fill" => Filled(table'[s], op'.have)
      BY <3>1, <3>2
    <3>5. QED
      BY <1>1, <3>1, <3>3, <3>4 DEF PlacedAt
  <2>7. QED
    BY <2>2, <2>3, <2>4, <2>5, <2>6 DEF Sound
<1>9. QED
  BY <1>6, <1>7, <1>8

\* A call on a handle, at a step on the handle.
OnEntry == op # Idle /\ op.pc \in {"fd", "fill", "seekback"}

LEMMA InHandleCall ==
  ASSUME Inv, OnEntry
  PROVE  /\ op \in Ops /\ op.call # "none" /\ op.call # "open" /\ ~ Opening /\ op.f \in Files /\ Id \in Ids
         /\ handle[op.f] = Id /\ handle[op.f] # Closed /\ want[op.f] \in Nat \cup {Unknown}
         /\ Slot # 0 => Slot \in Slots /\ table[Slot] \in Entries /\ table[Slot].id = Id
<1>1. op \in Ops /\ op.call # "none" /\ op.f \in Files /\ Typed /\ ~ Opening
  BY Kinds, OpFields DEF Inv, OnEntry, Opening
<1>2. op.call # "open"
  BY <1>1 DEF Inv, Arguments, InOpen, OnEntry
<1>3. handle[op.f] # Closed
  BY <1>2 DEF Inv, InCall, OnEntry
<1>4. handle[op.f] \in Ids /\ want[op.f] \in Nat \cup {Unknown}
  BY <1>1, <1>3 DEF Typed
<1>5. Slot # 0 => Slot \in Slots /\ table[Slot] \in Entries /\ table[Slot].id = Id
  BY <1>1, Found DEF Slot
<1>6. QED
  BY <1>1, <1>2, <1>3, <1>4, <1>5 DEF Id

\* What such a step may change besides the call, and what it makes of the entry.
Local ==
  /\ handle' = handle /\ mixed' = mixed /\ expired' \in BOOLEAN /\ troubles' \in 0 .. MaxTroubles
  /\ table' \in [Slots -> Entries \cup {NoEntry}] /\ srv' \in [Ids -> Handles \cup {NoHandle}]
  /\ \A s \in Slots : s # Slot => table'[s] = table[s]
  /\ Slot # 0 => /\ table'[Slot] \in Entries
                 /\ table'[Slot].id = table[Slot].id /\ table'[Slot].file = table[Slot].file
  /\ \A i \in Ids : i # Id => srv'[i] = srv[i]
  /\ Clean(op.f) => OfFile(op.f, table'[Slot], srv'[Id])

LEMMA CallEnds ==
  ASSUME Inv, OnEntry, Local, NEW STATE next, next \in Nat \cup {Unknown}, Ends(next),
         Clean(op.f) /\ next # Unknown => Level(table'[Slot], srv'[Id]) /\ table'[Slot].pos = next
  PROVE  Inv'
<1>1. op \in Ops /\ op.call # "open" /\ ~ Opening /\ op.f \in Files /\ op # Idle
  BY InHandleCall DEF OnEntry
<1>2. op' = Idle /\ got' = Nothing /\ want' = [want EXCEPT ![op.f] = next]
  BY DEF Ends
<1>3. /\ want' \in [Files -> Nat \cup {Unknown}] /\ want'[op.f] = next
      /\ \A g \in Files : g # op.f => want'[g] = want[g]
  BY <1>1, <1>2 DEF Inv, Typed
<1>4. ~ Opening'
  BY <1>2 DEF Opening, Idle
<1>5. Typed'
  BY <1>2, <1>3 DEF Inv, Typed, Local
<1>6. Arguments' /\ Buffer'
  BY <1>2 DEF Arguments, Buffer
<1>7. InCall' /\ \A g \in Files : Sound(g)'
  BY <1>1, <1>2, <1>3, <1>4, Touched DEF Local
<1>8. QED
  BY <1>2, <1>5, <1>6, <1>7, GotNothing DEF Inv

LEMMA CallTransfers ==
  ASSUME Inv, OnEntry, Local, NEW STATE n, n \in Nat, NEW STATE data, Transferred(n, data),
         Clean(op.f) => \A d \in 0 .. n - 1 : data[d].file = op.f,
         Clean(op.f) /\ want[op.f] # Unknown =>
           /\ \A d \in 0 .. n - 1 : data[d].pos = want[op.f] + op.part + d
           /\ Level(table'[Slot], srv'[Id])
           /\ table'[Slot].pos = want[op.f] + op.part + n
  PROVE  Inv'
<1>1. /\ op \in Ops /\ op.call # "open" /\ ~ Opening /\ op.f \in Files /\ op # Idle
      /\ want[op.f] \in Nat \cup {Unknown} /\ op.part \in Nat /\ handle[op.f] # Closed
  BY InHandleCall, OpFields DEF OnEntry
<1>2. /\ op' = Idle /\ want' = [want EXCEPT ![op.f] = Onward(n)]
      /\ got' = [call |-> op.call, f |-> op.f, want |-> want[op.f], n |-> n, part |-> op.part, data |-> data]
  BY DEF Transferred
<1>3. PICK w : w = Onward(n)
  OBVIOUS
<1>4. /\ w \in Nat \cup {Unknown}
      /\ w # Unknown => want[op.f] # Unknown /\ op.part = 0 /\ w = want[op.f] + n
  BY <1>1, <1>3 DEF Onward
<1>5. /\ want' \in [Files -> Nat \cup {Unknown}] /\ want'[op.f] = w
      /\ \A g \in Files : g # op.f => want'[g] = want[g]
  BY <1>1, <1>2, <1>3, <1>4 DEF Inv, Typed
<1>6. ~ Opening'
  BY <1>2 DEF Opening, Idle
<1>7. Typed'
  BY <1>2, <1>5 DEF Inv, Typed, Local
<1>8. Arguments' /\ Buffer'
  BY <1>2 DEF Arguments, Buffer
<1>9. Clean(op.f) /\ w # Unknown => Level(table'[Slot], srv'[Id]) /\ table'[Slot].pos = w
  <2> SUFFICES ASSUME Clean(op.f), w # Unknown PROVE Level(table'[Slot], srv'[Id]) /\ table'[Slot].pos = w
    OBVIOUS
  <2>1. PICK v, p : v = want[op.f] /\ p = table'[Slot].pos
    OBVIOUS
  <2>2. v \in Nat /\ p = v + 0 + n /\ w = v + n
    BY <1>1, <1>4, <2>1
  <2>3. p = w
    BY <2>2
  <2>4. QED
    BY <1>4, <2>1, <2>3
<1>10. InCall' /\ \A g \in Files : Sound(g)'
  BY <1>1, <1>2, <1>5, <1>6, <1>9, Touched DEF Local
<1>11. got'.f = op.f /\ got'.want = want[op.f] /\ got'.n = n /\ got'.part = op.part /\ got'.data = data
  BY <1>2
<1>12. Succeeded' => Clean(op.f)
  BY <1>1, <1>11 DEF Succeeded, Clean, Local
<1>13. OwnFile' /\ PositionKept'
  <2>1. OwnFile'
    BY <1>11, <1>12 DEF OwnFile
  <2>2. PositionKept'
    BY <1>11, <1>12 DEF PositionKept
  <2>3. QED
    BY <2>1, <2>2
<1>14. QED
  BY <1>7, <1>8, <1>10, <1>13 DEF Inv

LEMMA CallGoesOn ==
  ASSUME Inv, OnEntry, Local, UNCHANGED <<got, want>>,
         op' \in Ops, op'.f = op.f, op'.call = op.call, op'.arg = op.arg, op'.part = op.part,
         op'.pc \in {"fd", "fill"}, Arguments',
         Clean(op.f) => \A d \in Units : d < op'.done => op'.data[d].file = op.f,
         Clean(op.f) /\ want[op.f] # Unknown =>
           /\ \A d \in Units : d < op'.done => op'.data[d].pos = want[op.f] + op.part + d
           /\ Level(table'[Slot], srv'[Id])
           /\ table'[Slot].pos = want[op.f] + op.part + op'.done
           /\ op'.pc = "fill" => Filled(table'[Slot], op'.have)
  PROVE  Inv'
<1>1. op \in Ops /\ op.call # "open" /\ ~ Opening /\ op.f \in Files /\ op # Idle
  BY InHandleCall DEF OnEntry
<1>2. want' = want /\ got' = got /\ op' # Idle
  BY OpFields
<1>3. want' \in [Files -> Nat \cup {Unknown}] /\ \A g \in Files : g # op.f => want'[g] = want[g]
  BY <1>2 DEF Inv, Typed
<1>4. ~ Opening'
  BY DEF Opening
<1>5. Typed'
  BY <1>3 DEF Inv, Typed, Local
<1>6. Buffer'
  <2>1. Clean(op.f)' => Clean(op.f)
    BY DEF Clean, Local
  <2>2. QED
    BY <1>2, <2>1 DEF Buffer
<1>7. InCall' /\ \A g \in Files : Sound(g)'
  <2>1. Clean(op.f) /\ want'[op.f] # Unknown =>
           /\ Level(table'[Slot], srv'[Id])
           /\ op' = Idle => table'[Slot].pos = want'[op.f]
           /\ op' # Idle => /\ op'.pc \in {"fd", "fill"}
                            /\ table'[Slot].pos = want'[op.f] + op'.part + op'.done
                            /\ op'.pc = "fill" => Filled(table'[Slot], op'.have)
    BY <1>2
  <2>2. QED
    BY <1>1, <1>2, <1>3, <1>4, <2>1, Touched DEF Local
<1>8. QED
  BY <1>2, <1>5, <1>6, <1>7, GotKept DEF Inv, Local

-----------------------------------------------------------------------------
(***************************************************************************)
(* Steps of a call on its entry.                                           *)
(***************************************************************************)
LEMMA DroppedEntry ==
  ASSUME NEW e \in Entries
  PROVE  /\ Dropped(e) \in Entries /\ Dropped(e).id = e.id /\ Dropped(e).file = e.file /\ Dropped(e).pos = e.pos
         /\ Dropped(e).fpos = e.fpos /\ Dropped(e).avail = 0 /\ Dropped(e).from.file = e.file
<1>1. PICK q : q = At(e.file, 0)
  OBVIOUS
<1>2. q \in Places /\ q.file = e.file
  BY <1>1, Records, Parameters DEF At, Places
<1>3. PICK x : x = [e EXCEPT !.avail = 0, !.from = q]
  OBVIOUS
<1>4. /\ x \in Entries /\ x.id = e.id /\ x.file = e.file /\ x.pos = e.pos
      /\ x.fpos = e.fpos /\ x.avail = 0 /\ x.from = q
  <2>1. PICK C, P : C = 0 .. CacheSize /\ P = 0 .. MaxPos
    OBVIOUS
  <2>2. 0 \in C
    BY <2>1, Parameters
  <2>3. Entries = [id : Ids, file : Files, pos : P, fpos : P, avail : C, from : Places]
    BY <2>1 DEF Entries
  <2>4. QED
    BY <1>2, <1>3, <2>2, <2>3
<1>5. x = Dropped(e)
  BY <1>1, <1>3 DEF Dropped
<1>6. QED
  BY <1>2, <1>4, <1>5

\* An entry that moves.
LEMMA MovedPos ==
  ASSUME NEW e \in Entries, NEW p \in 0 .. MaxPos, NEW x, x = [e EXCEPT !.pos = p]
  PROVE  /\ x \in Entries /\ x.id = e.id /\ x.file = e.file /\ x.pos = p /\ x.fpos = e.fpos
         /\ x.avail = e.avail /\ x.from = e.from
BY DEF Entries

LEMMA MovedFile ==
  ASSUME NEW e \in Entries, NEW p \in 0 .. MaxPos, NEW x, x = [e EXCEPT !.fpos = p]
  PROVE  /\ x \in Entries /\ x.id = e.id /\ x.file = e.file /\ x.pos = e.pos /\ x.fpos = p
         /\ x.avail = e.avail /\ x.from = e.from
BY DEF Entries

\* The server's handle of the call moves.
LEMMA ServerMoved ==
  ASSUME Inv, OnEntry, srv[Id] # NoHandle, NEW p \in 0 .. MaxPos, srv' = [srv EXCEPT ![Id].pos = p]
  PROVE  /\ srv' \in [Ids -> Handles \cup {NoHandle}] /\ \A i \in Ids : i # Id => srv'[i] = srv[i]
         /\ srv'[Id] # NoHandle /\ srv'[Id].file = srv[Id].file /\ srv'[Id].pos = p
<1>1. PICK i \in Ids : i = Id
  BY InHandleCall
<1>2. srv \in [Ids -> Handles \cup {NoHandle}] /\ srv[i] \in Handles
  BY <1>1 DEF Inv, Typed
<1>3. PICK h : h = [srv[i] EXCEPT !.pos = p]
  OBVIOUS
<1>4. h \in Handles /\ h.file = srv[i].file /\ h.pos = p
  BY <1>2, <1>3 DEF Handles
<1>5. srv' = [srv EXCEPT ![i] = h]
  BY <1>1, <1>3
<1>6. srv' \in [Ids -> Handles \cup {NoHandle}] /\ srv'[i] = h /\ \A j \in Ids : j # i => srv'[j] = srv[j]
  BY <1>2, <1>4, <1>5
<1>7. QED
  BY <1>1, <1>4, <1>6, Records

\* The entry of the call becomes e.
LEMMA LocalStep ==
  ASSUME Inv, OnEntry, Slot # 0, NEW e \in Entries, e.id = table[Slot].id, e.file = table[Slot].file,
         table' = [table EXCEPT ![Slot] = e], handle' = handle, mixed' = mixed,
         expired' \in BOOLEAN, troubles' \in 0 .. MaxTroubles,
         srv' \in [Ids -> Handles \cup {NoHandle}], \A i \in Ids : i # Id => srv'[i] = srv[i],
         Clean(op.f) => e.from.file = op.f /\ (srv'[Id] = NoHandle \/ srv'[Id].file = op.f)
  PROVE  Local /\ table'[Slot] = e
<1>1. PICK s \in Slots : s = Slot
  BY InHandleCall
<1>2. table \in [Slots -> Entries \cup {NoEntry}]
  BY DEF Inv, Typed
<1>3. /\ table' \in [Slots -> Entries \cup {NoEntry}] /\ table'[s] = e
      /\ \A t \in Slots : t # s => table'[t] = table[t]
  BY <1>1, <1>2
<1>4. Clean(op.f) => OfFile(op.f, table'[s], srv'[Id])
  BY <1>3 DEF OfFile
<1>5. QED
  BY <1>1, <1>3, <1>4 DEF Local

\* The entry and the handle of a call are of its file.
LEMMA OwnFiles ==
  ASSUME Inv, OnEntry, Clean(op.f)
  PROVE  /\ table[Slot].file = op.f /\ table[Slot].from.file = op.f /\ (srv[Id] = NoHandle \/ srv[Id].file = op.f)
BY InHandleCall, OwnEntry DEF OnEntry, Sole, Mine, OfFile

\* What a read takes from the cache.
LEMMA Taken ==
  ASSUME NEW e \in Entries, NEW a \in Nat, NEW b \in Nat, b < a,
         NEW k, k = IF Cached(e, e.pos) THEN Min({e.fpos - e.pos, a - b}) ELSE 0
  PROVE  k \in Nat /\ b + k <= a /\ e.pos + k \in 0 .. MaxPos /\ (k > 0 => e.avail > 0)
<1>1. PICK p, q, v : p = e.pos /\ q = e.fpos /\ v = e.avail
  OBVIOUS
<1>2. p \in 0 .. MaxPos /\ q \in 0 .. MaxPos /\ v \in Nat
  BY <1>1, Records, Parameters
<1>3. CASE Cached(e, e.pos)
  <2>1. p < q /\ q - v <= p
    BY <1>1, <1>3 DEF Cached
  <2>2. PICK S : S = {q - p, a - b}
    OBVIOUS
  <2>3. S # {} /\ S \subseteq Nat
    BY <1>2, <2>1, <2>2, Parameters
  <2>4. k = Min(S)
    BY <1>1, <1>3, <2>2
  <2>5. k \in S /\ \A y \in S : k <= y
    BY <2>3, <2>4, Smallest
  <2>6. k \in Nat /\ k <= q - p /\ k <= a - b
    BY <2>2, <2>3, <2>5
  <2>7. v > 0
    BY <1>2, <2>1, Parameters
  <2>8. QED
    BY <1>1, <1>2, <2>1, <2>6, <2>7, Parameters
<1>4. CASE ~ Cached(e, e.pos)
  <2>1. k = 0
    BY <1>4
  <2>2. QED
    BY <1>1, <1>2, <2>1, Parameters
<1>5. QED
  BY <1>3, <1>4

LEMMA CacheStep ==
  ASSUME Inv, _tnfs_read_from_cache
  PROVE  Inv'
<1> USE DEF OnHandle
<1>1. OnEntry
  BY Kinds DEF Inv, _tnfs_read_from_cache, OnEntry
<1>2. /\ op \in Ops /\ op.call = "read" /\ op.pc = "fd" /\ Slot # 0 /\ Slot \in Slots /\ table[Slot] \in Entries
      /\ Id \in Ids /\ op.f \in Files
  BY <1>1, InHandleCall DEF _tnfs_read_from_cache
<1>22. PICK e \in Entries : e = table[Slot]
  BY <1>2
<1>3. PICK f, s, a, b, c, w, m :
        e = table[Slot] /\ f = op.f /\ s = Slot /\ a = op.arg /\ b = op.done /\ c = op.part /\ w = want[f] /\ m = op.data
  BY <1>22
<1>4. a \in 1 .. MaxRead /\ b \in Nat /\ c \in Nat /\ b < a /\ m \in [Units -> Data] /\ w \in Nat \cup {Unknown}
  BY <1>1, <1>2, <1>3, OpFields, InHandleCall DEF Inv, Arguments, InRead, OnEntry
<1>5. PICK k : k = IF Cached(e, e.pos) THEN Min({e.fpos - e.pos, a - b}) ELSE 0
  OBVIOUS
<1>6. k \in Nat /\ b + k <= a /\ e.pos + k \in 0 .. MaxPos /\ (k > 0 => e.avail > 0)
  <2>1. a \in Nat
    BY <1>4
  <2>2. QED
    BY <1>4, <1>5, <2>1, Taken
<1>7. PICK data : data = [d \in Units |-> IF b <= d /\ d < b + k THEN CachedUnit(e, e.pos + d - b) ELSE m[d]]
  OBVIOUS
<1>8. /\ IF b + k = a
         THEN /\ table' = [table EXCEPT ![Slot] = [e EXCEPT !.pos = @ + k]]
              /\ Transferred(op.arg, data)
         ELSE /\ table' = [table EXCEPT ![Slot] = [Dropped(e) EXCEPT !.pos = @ + k]]
              /\ op' = [op EXCEPT !.pc = "fill", !.done = @ + k, !.have = 0, !.data = data]
              /\ UNCHANGED <<got, want>>
      /\ UNCHANGED <<handle, srv, expired, troubles, mixed>>
  BY <1>3, <1>5, <1>7 DEF _tnfs_read_from_cache
<1>9. PICK p, q, v, z : p = e.pos /\ q = e.fpos /\ v = e.avail /\ z = e.from
  OBVIOUS
<1>10. p \in 0 .. MaxPos /\ q \in 0 .. MaxPos /\ v \in Nat /\ z.file \in Files /\ z.pos \in 0 .. MaxPos
  BY <1>9, Records, Parameters
<1>20. PICK N : N = [d \in Units |-> z.pos + (p + d - b) - (q - v)]
  OBVIOUS
<1>11. \A d \in Units : /\ b <= d /\ d < b + k => data[d] = At(z.file, N[d])
                        /\ ~ (b <= d /\ d < b + k) => data[d] = m[d]
  BY <1>7, <1>9, <1>20 DEF CachedUnit
<1>21. \A d \in Units : N[d] = z.pos + (p + d - b) - (q - v)
  BY <1>20
<1>12. Clean(f) => /\ z.file = f
                   /\ \A d \in Units : d < b => m[d].file = f
                   /\ w # Unknown => /\ \A d \in Units : d < b => m[d].pos = w + c + d
                                     /\ p = w + c + b /\ Level(e, srv[Id]) /\ (v > 0 => z.pos = q - v)
  <2> SUFFICES ASSUME Clean(f)
               PROVE  /\ z.file = f
                      /\ \A d \in Units : d < b => m[d].file = f
                      /\ w # Unknown => /\ \A d \in Units : d < b => m[d].pos = w + c + d
                                        /\ p = w + c + b /\ Level(e, srv[Id]) /\ (v > 0 => z.pos = q - v)
    OBVIOUS
  <2>1. z.file = f
    BY <1>1, <1>3, <1>9, OwnFiles
  <2>2. \A d \in Units : d < b => m[d].file = f /\ (w # Unknown => m[d].pos = w + c + d)
    BY <1>1, <1>3 DEF Inv, Buffer, OnEntry
  <2>3. ASSUME w # Unknown PROVE p = w + c + b /\ Level(e, srv[Id]) /\ (v > 0 => z.pos = q - v)
    <3>1. PlacedAt(e, f)
      BY <1>1, <1>3, <2>3, OwnEntry, InHandleCall DEF OnEntry
    <3>2. Busy(f) /\ ~ Recovering(f) /\ Moved(f) = c + b
      BY <1>1, <1>2, <1>3 DEF Busy, Recovering, Moved, OnEntry
    <3>3. p = w + (c + b)
      BY <1>3, <1>9, <3>1, <3>2 DEF PlacedAt, Position
    <3>4. Level(e, srv[handle[f]]) /\ handle[f] = Id
      BY <1>1, <1>3, <3>1, InHandleCall DEF PlacedAt
    <3>5. QED
      BY <1>4, <1>9, <2>3, <3>3, <3>4 DEF Level
  <2>4. QED
    BY <2>1, <2>2, <2>3
<1>13. Clean(f) => \A d \in Units : d < b + k => data[d].file = f /\ (w # Unknown => data[d].pos = w + c + d)
  <2> SUFFICES ASSUME Clean(f), NEW d \in Units, d < b + k
               PROVE  data[d].file = f /\ (w # Unknown => data[d].pos = w + c + d)
    OBVIOUS
  <2>1. CASE d < b
    BY <1>4, <1>6, <1>11, <1>12, <2>1, Parameters DEF Units
  <2>2. CASE b <= d
    <3>1. data[d] = At(z.file, N[d])
      BY <1>11, <2>2
    <3>5. k > 0 /\ N[d] = z.pos + (p + d - b) - (q - v)
      BY <1>4, <1>6, <1>21, <2>2, Parameters DEF Units
    <3>2. data[d].file = z.file /\ data[d].pos = z.pos + (p + d - b) - (q - v)
      BY <3>1, <3>5 DEF At
    <3>3. ASSUME w # Unknown PROVE data[d].pos = w + c + d
      <4>1. d \in Int /\ p = w + c + b /\ z.pos = q - v /\ w \in Nat
        BY <1>4, <1>6, <1>9, <1>12, <3>5, <3>3, Parameters DEF Units
      <4>2. QED
        BY <1>4, <1>10, <3>2, <4>1
    <3>4. QED
      BY <1>12, <3>2, <3>3
  <2>3. QED
    BY <1>4, <2>1, <2>2, Parameters DEF Units
<1>14. data \in [Units -> Data]
  <2> SUFFICES ASSUME NEW d \in Units PROVE data[d] \in Data
    BY <1>7
  <2>1. CASE b <= d /\ d < b + k
    <3>1. PICK y : y = N[d]
      OBVIOUS
    <3>2. y \in Int
      BY <1>4, <1>10, <1>21, <3>1, Parameters DEF Units
    <3>3. data[d] = At(z.file, y)
      BY <1>11, <2>1, <3>1
    <3>4. QED
      BY <1>10, <3>2, <3>3 DEF At, Data
  <2>2. CASE ~ (b <= d /\ d < b + k)
    BY <1>4, <1>11, <2>2
  <2>3. QED
    BY <2>1, <2>2
<1>15. /\ expired' \in BOOLEAN /\ troubles' \in 0 .. MaxTroubles /\ srv' \in [Ids -> Handles \cup {NoHandle}]
       /\ srv' = srv /\ handle' = handle /\ mixed' = mixed
  BY <1>8 DEF Inv, Typed
<1>16. Clean(f) => srv'[Id] = NoHandle \/ srv'[Id].file = f
  BY <1>1, <1>3, <1>15, OwnFiles
<1>17. CASE b + k = a
  <2>9. PICK y : y = p + k
    OBVIOUS
  <2>10. y \in 0 .. MaxPos
    BY <1>6, <1>9, <2>9
  <2>1. PICK x : x = [e EXCEPT !.pos = y]
    OBVIOUS
  <2>2. /\ x \in Entries /\ x.id = e.id /\ x.file = e.file /\ x.pos = p + k
        /\ x.fpos = e.fpos /\ x.avail = e.avail /\ x.from = e.from
    BY <2>1, <2>9, <2>10, MovedPos
  <2>3. table' = [table EXCEPT ![Slot] = x] /\ Transferred(op.arg, data)
    BY <1>8, <1>9, <1>17, <2>1, <2>9
  <2>4. Local /\ table'[Slot] = x
    <3>1. Clean(op.f) => x.from.file = op.f
      BY <1>3, <1>9, <1>12, <2>2
    <3>2. QED
      BY <1>1, <1>2, <1>3, <1>15, <1>16, <2>2, <2>3, <3>1, LocalStep
  <2>5. Clean(op.f) => \A d \in 0 .. op.arg - 1 : data[d].file = op.f
    BY <1>3, <1>4, <1>13, <1>17, Parameters DEF Units
  <2>6. Clean(op.f) /\ want[op.f] # Unknown =>
          /\ \A d \in 0 .. op.arg - 1 : data[d].pos = want[op.f] + op.part + d
          /\ Level(table'[Slot], srv'[Id])
          /\ table'[Slot].pos = want[op.f] + op.part + op.arg
    <3> SUFFICES ASSUME Clean(f), w # Unknown
                 PROVE  /\ \A d \in 0 .. a - 1 : data[d].pos = w + c + d
                        /\ Level(table'[Slot], srv'[Id])
                        /\ table'[Slot].pos = w + c + a
      BY <1>3
    <3>1. \A d \in 0 .. a - 1 : d \in Units /\ d < b + k
      BY <1>4, <1>17, Parameters DEF Units
    <3>2. Level(x, srv[Id])
      BY <1>12, <2>2 DEF Level
    <3>3. x.pos = w + c + a
      BY <1>4, <1>6, <1>12, <1>17, <2>2
    <3>4. QED
      BY <1>13, <1>15, <2>4, <3>1, <3>2, <3>3
  <2>7. op.arg \in Nat
    BY <1>3, <1>4
  <2>8. QED
    BY <1>1, <2>3, <2>4, <2>5, <2>6, <2>7, CallTransfers
<1>18. CASE b + k # a
  <2>16. PICK y, t : y = p + k /\ t = Dropped(e)
    OBVIOUS
  <2>17. /\ y \in 0 .. MaxPos /\ t \in Entries /\ t.id = e.id /\ t.file = e.file /\ t.fpos = e.fpos
         /\ t.avail = 0 /\ t.from.file = e.file
    BY <1>6, <1>9, <2>16, DroppedEntry
  <2>1. PICK x : x = [t EXCEPT !.pos = y]
    OBVIOUS
  <2>2. /\ x \in Entries /\ x.id = e.id /\ x.file = e.file /\ x.pos = p + k
        /\ x.fpos = e.fpos /\ x.avail = 0 /\ x.from.file = e.file
    <3>1. x \in Entries /\ x.id = t.id /\ x.file = t.file /\ x.pos = y /\ x.fpos = t.fpos /\ x.avail = t.avail /\ x.from = t.from
      BY <2>1, <2>17, MovedPos
    <3>2. QED
      BY <2>16, <2>17, <3>1
  <2>3. /\ table' = [table EXCEPT ![Slot] = x]
        /\ op' = [op EXCEPT !.pc = "fill", !.done = b + k, !.have = 0, !.data = data]
        /\ UNCHANGED <<got, want>>
    <3>1. Dropped(e).pos = p
      BY <1>9, DroppedEntry
    <3>2. QED
      BY <1>3, <1>8, <1>18, <2>1, <2>16, <3>1
  <2>4. Local /\ table'[Slot] = x
    <3>1. Clean(op.f) => x.from.file = op.f
      BY <1>1, <1>3, <2>2, OwnFiles
    <3>2. QED
      BY <1>1, <1>2, <1>3, <1>15, <1>16, <2>2, <2>3, <3>1, LocalStep
  <2>18. PICK o \in Ops : o = op
    BY <1>2
  <2>5. PICK n : n = b + k /\ o = op
    BY <2>18
  <2>6. PICK r : r = [o EXCEPT !.pc = "fill", !.done = n, !.have = 0, !.data = data]
    OBVIOUS
  <2>7. n \in Nat /\ n < a
    BY <1>4, <1>6, <1>18, <2>5
  <2>8. /\ r \in Ops /\ r.f = o.f /\ r.call = o.call /\ r.arg = o.arg /\ r.part = o.part /\ r.pc = "fill"
        /\ r.done = n /\ r.have = 0 /\ r.data = data /\ r.again = o.again
    BY <1>14, <2>6, <2>7 DEF Ops
  <2>9. op' = r
    BY <2>3, <2>5, <2>6
  <2>10. Arguments'
    <3>1. op'.call = "read" /\ op'.arg = a /\ op'.done < a /\ op'.pc = "fill" /\ op'.have < CacheSize
      BY <1>2, <1>3, <2>5, <2>7, <2>8, <2>9, Parameters
    <3>2. op'.part = op.part /\ op'.again = op.again /\ (~ op.again => op.part = 0)
      BY <1>1, <1>2, <2>5, <2>8, <2>9 DEF Inv, Arguments, OnEntry
    <3>3. QED
      BY <1>4, <3>1, <3>2 DEF Arguments, InRead
  <2>11. Clean(op.f) /\ want[op.f] # Unknown =>
           /\ Level(table'[Slot], srv'[Id])
           /\ table'[Slot].pos = want[op.f] + op.part + op'.done
           /\ op'.pc = "fill" => Filled(table'[Slot], op'.have)
    <3> SUFFICES ASSUME Clean(f), w # Unknown
                 PROVE  /\ Level(x, srv[Id]) /\ x.pos = w + c + n /\ Filled(x, 0)
      BY <1>3, <1>15, <2>4, <2>8, <2>9
    <3>1. Level(x, srv[Id])
      BY <1>12, <2>2 DEF Level
    <3>2. x.pos = w + c + n
      BY <1>4, <1>6, <1>12, <2>2, <2>5
    <3>3. QED
      BY <2>2, <3>1, <3>2 DEF Filled
  <2>12. Clean(op.f) => \A d \in Units : d < op'.done => op'.data[d].file = op.f
    BY <1>3, <1>13, <2>5, <2>8, <2>9
  <2>13. Clean(op.f) /\ want[op.f] # Unknown =>
            \A d \in Units : d < op'.done => op'.data[d].pos = want[op.f] + op.part + d
    BY <1>3, <1>13, <2>5, <2>8, <2>9
  <2>14. op' \in Ops /\ op'.f = op.f /\ op'.call = op.call /\ op'.arg = op.arg /\ op'.part = op.part /\ op'.pc \in {"fd", "fill"}
    BY <2>5, <2>8, <2>9
  <2>15. QED
    BY <1>1, <2>3, <2>4, <2>10, <2>11, <2>12, <2>13, <2>14, CallGoesOn
<1>19. QED
  BY <1>17, <1>18

\* The entry, the server's handle and the buffer of a call in progress.
LEMMA CallPlaced ==
  ASSUME Inv, OnEntry, Clean(op.f), want[op.f] # Unknown
  PROVE  /\ Level(table[Slot], srv[Id])
         /\ op.pc # "seekback" => table[Slot].pos = want[op.f] + op.part + op.done
         /\ op.pc = "seekback" => op.pos = want[op.f] + op.part
         /\ op.pc = "fill" => Filled(table[Slot], op.have)
<1>1. PICK e, f, b, c, w : e = table[Slot] /\ f = op.f /\ b = op.done /\ c = op.part /\ w = want[f]
  OBVIOUS
<1>2. b \in Nat /\ c \in Nat /\ w \in Nat /\ handle[f] = Id
  BY <1>1, InHandleCall, OpFields
<1>3. PlacedAt(e, f)
  BY <1>1, OwnEntry, InHandleCall DEF OnEntry
<1>4. Level(e, srv[Id])
  BY <1>2, <1>3 DEF PlacedAt
<1>5. Busy(f) /\ (Recovering(f) <=> op.pc = "seekback") /\ Moved(f) = c + b
  BY <1>1 DEF Busy, Recovering, Moved, OnEntry
<1>6. op.pc # "seekback" => e.pos = w + (c + b)
  BY <1>1, <1>3, <1>5 DEF PlacedAt, Position
<1>7. op.pc = "seekback" => op.pos = w + c
  BY <1>1, <1>3, <1>5 DEF PlacedAt, Position
<1>8. op.pc = "fill" => Filled(e, op.have)
  BY <1>3, <1>5 DEF PlacedAt
<1>9. w + (c + b) = w + c + b
  BY <1>2
<1>10. QED
  BY <1>1, <1>4, <1>6, <1>7, <1>8, <1>9

LEMMA FillStep ==
  ASSUME Inv, _tnfs_fill_cache
  PROVE  Inv'
<1> USE DEF OnHandle
<1>1. OnEntry
  BY Kinds DEF Inv, _tnfs_fill_cache, OnEntry
<1>2. /\ op \in Ops /\ op.pc = "fill" /\ Slot # 0 /\ Slot \in Slots /\ table[Slot] \in Entries
      /\ Id \in Ids /\ op.f \in Files /\ srv[Id] # NoHandle
  BY <1>1, InHandleCall DEF _tnfs_fill_cache, Alive
<1>3. op.call = "read" /\ op.have < CacheSize /\ InRead
  BY <1>1, <1>2 DEF Inv, Arguments, OnEntry
<1>4. PICK e \in Entries, h \in Handles, o \in Ops : e = table[Slot] /\ h = srv[Id] /\ o = op
  BY <1>2 DEF Inv, Typed
<1>5. PICK n : n = op.have + 1
  OBVIOUS
<1>6. n \in 1 .. CacheSize /\ op.have \in Nat
  BY <1>2, <1>3, <1>5, OpFields, Parameters
<1>7. PICK p, q, z, w, c, b : /\ p = e.pos /\ q = e.fpos /\ z = e.from /\ w = want[op.f]
                              /\ c = op.part /\ b = op.done
  OBVIOUS
<1>8. p \in 0 .. MaxPos /\ q \in 0 .. MaxPos /\ z \in Places /\ w \in Nat \cup {Unknown} /\ c \in Nat /\ b \in Nat
  BY <1>1, <1>7, <1>2, Records, InHandleCall, OpFields
<1>9. Clean(op.f) => z.file = op.f /\ h.file = op.f
  BY <1>1, <1>2, <1>4, <1>7, OwnFiles
<1>10. Clean(op.f) /\ w # Unknown =>
         p = w + c + b /\ Level(e, h) /\ Filled(e, op.have)
  BY <1>1, <1>2, <1>4, <1>7, CallPlaced
<1>11. Clean(op.f) => \A d \in Units : d < b => op.data[d].file = op.f /\ (w # Unknown => op.data[d].pos = w + c + d)
  BY <1>1, <1>7 DEF Inv, Buffer, OnEntry
<1>12. UNCHANGED <<handle, got, want, expired, troubles, mixed>>
  BY DEF _tnfs_fill_cache
<1>13. expired' \in BOOLEAN /\ troubles' \in 0 .. MaxTroubles /\ handle' = handle /\ mixed' = mixed
  BY <1>12 DEF Inv, Typed
<1>14. CASE /\ Room
            /\ table' = [table EXCEPT ![Slot] =
                           [table[Slot] EXCEPT !.fpos = @ + 1, !.avail = IF n = CacheSize THEN n ELSE 0,
                                     !.from = IF n = 1 THEN At(srv[Id].file, srv[Id].pos) ELSE @]]
            /\ op' = [op EXCEPT !.have = n, !.pc = IF n = CacheSize THEN "fd" ELSE "fill"]
            /\ srv' = [srv EXCEPT ![Id].pos = @ + 1]
  <2>1. PICK g, k, v, y : /\ g = q + 1 /\ k = h.pos + 1 /\ v = (IF n = CacheSize THEN n ELSE 0)
                          /\ y = (IF n = 1 THEN At(h.file, h.pos) ELSE z)
    OBVIOUS
  <2>2. PICK t : t = h.pos
    OBVIOUS
  <2>3. q < MaxPos /\ t < MaxPos /\ t \in 0 .. MaxPos /\ h.file \in Files
    BY <1>4, <1>7, <1>14, <2>2, Records DEF Room
  <2>4. g \in 0 .. MaxPos /\ k \in 0 .. MaxPos /\ v \in 0 .. CacheSize
    BY <1>6, <1>8, <2>1, <2>2, <2>3, Parameters
  <2>5. y \in Places /\ (n = 1 => y.file = h.file /\ y.pos = t) /\ (n # 1 => y = z)
    BY <1>8, <2>1, <2>2, <2>3 DEF At, Places
  <2>6. PICK x : x = [e EXCEPT !.fpos = g, !.avail = v, !.from = y]
    OBVIOUS
  <2>7. x \in Entries /\ x.id = e.id /\ x.file = e.file /\ x.pos = p /\ x.fpos = g /\ x.avail = v /\ x.from = y
    <3>1. PICK C, P : C = 0 .. CacheSize /\ P = 0 .. MaxPos
      OBVIOUS
    <3>2. Entries = [id : Ids, file : Files, pos : P, fpos : P, avail : C, from : Places]
      BY <3>1 DEF Entries
    <3>3. QED
      BY <1>7, <2>4, <2>5, <2>6, <3>1, <3>2
  <2>8. table' = [table EXCEPT ![Slot] = x] /\ srv' = [srv EXCEPT ![Id].pos = k]
    BY <1>4, <1>7, <1>14, <2>1, <2>6
  <2>9. /\ srv' \in [Ids -> Handles \cup {NoHandle}] /\ \A i \in Ids : i # Id => srv'[i] = srv[i]
        /\ srv'[Id] # NoHandle /\ srv'[Id].file = h.file /\ srv'[Id].pos = k
    BY <1>1, <1>2, <1>4, <2>4, <2>8, ServerMoved
  <2>10. Clean(op.f) => x.from.file = op.f /\ srv'[Id].file = op.f
    BY <1>9, <2>5, <2>7, <2>9
  <2>11. Local /\ table'[Slot] = x
    BY <1>1, <1>2, <1>4, <1>13, <2>7, <2>8, <2>9, <2>10, LocalStep
  <2>12. PICK l : l = (IF n = CacheSize THEN "fd" ELSE "fill")
    OBVIOUS
  <2>13. PICK r : r = [o EXCEPT !.have = n, !.pc = l]
    OBVIOUS
  <2>14. l \in {"fd", "fill"} /\ (l = "fill" <=> n # CacheSize) /\ n \in Nat
    BY <1>6, <2>12
  <2>15. /\ r \in Ops /\ r.f = o.f /\ r.call = o.call /\ r.arg = o.arg /\ r.part = o.part /\ r.pc = l
         /\ r.done = o.done /\ r.have = n /\ r.data = o.data /\ r.again = o.again
    BY <2>13, <2>14 DEF Ops
  <2>16. op' = r
    BY <1>4, <1>14, <2>12, <2>13
  <2>17. Arguments'
    <3>1. op'.call = "read" /\ op'.arg = op.arg /\ op'.done = op.done /\ op'.pc \in {"fd", "fill"}
      BY <1>3, <1>4, <2>14, <2>15, <2>16
    <3>2. op'.pc = "fill" => op'.have < CacheSize
      BY <1>6, <2>14, <2>15, <2>16, Parameters
    <3>3. op'.part = op.part /\ op'.again = op.again /\ (~ op.again => op.part = 0)
      BY <1>1, <1>2, <1>4, <2>15, <2>16 DEF Inv, Arguments, OnEntry
    <3>4. QED
      BY <1>2, <1>3, <3>1, <3>2, <3>3 DEF Arguments, InRead
  <2>18. Clean(op.f) /\ w # Unknown => /\ Level(x, srv'[Id]) /\ x.pos = w + c + b
                                       /\ l = "fill" => Filled(x, n)
    <3> SUFFICES ASSUME Clean(op.f), w # Unknown
                 PROVE  Level(x, srv'[Id]) /\ x.pos = w + c + b /\ (l = "fill" => Filled(x, n))
      OBVIOUS
    <3>1. t = q /\ (op.have > 0 => z.pos = q - op.have)
      BY <1>4, <1>7, <1>10, <2>2, Records DEF Level, Filled
    <3>2. y.pos = g - n
      <4>1. z.pos \in 0 .. MaxPos
        BY <1>8, Records
      <4>2. PICK j : j = op.have
        OBVIOUS
      <4>3. CASE n = 1
        BY <1>8, <2>1, <2>5, <3>1, <4>3
      <4>4. CASE n # 1
        BY <1>5, <1>6, <1>8, <2>1, <2>5, <3>1, <4>1, <4>2, <4>4
      <4>5. QED
        BY <4>3, <4>4
    <3>3. k = g
      BY <2>1, <2>2, <3>1
    <3>4. v > 0 => v = n
      BY <2>1
    <3>5. Level(x, srv'[Id])
      BY <2>7, <2>9, <3>2, <3>3, <3>4 DEF Level
    <3>6. l = "fill" => v = 0
      BY <2>1, <2>14
    <3>7. QED
      BY <1>10, <2>7, <3>2, <3>5, <3>6 DEF Filled
  <2>19. UNCHANGED <<got, want>>
    BY <1>12
  <2>20. /\ Clean(op.f) => \A d \in Units : d < op'.done => op'.data[d].file = op.f
         /\ Clean(op.f) /\ want[op.f] # Unknown =>
              /\ \A d \in Units : d < op'.done => op'.data[d].pos = want[op.f] + op.part + d
              /\ Level(table'[Slot], srv'[Id])
              /\ table'[Slot].pos = want[op.f] + op.part + op'.done
              /\ op'.pc = "fill" => Filled(table'[Slot], op'.have)
    BY <1>4, <1>7, <1>11, <2>11, <2>15, <2>16, <2>18
  <2>21. op' \in Ops /\ op'.f = op.f /\ op'.call = op.call /\ op'.arg = op.arg /\ op'.part = op.part /\ op'.pc \in {"fd", "fill"}
    BY <1>4, <2>14, <2>15, <2>16
  <2>22. QED
    BY <1>1, <2>11, <2>17, <2>19, <2>20, <2>21, CallGoesOn
<1>15. CASE /\ ~ Room /\ op.have > 0
            /\ table' = [table EXCEPT ![Slot].avail = op.have]
            /\ op' = [op EXCEPT !.pc = "fd"]
            /\ UNCHANGED srv
  <2>1. PICK v : v = op.have
    OBVIOUS
  <2>2. v \in 0 .. CacheSize /\ v > 0
    BY <1>3, <1>6, <1>15, <2>1, Parameters
  <2>3. PICK x : x = [e EXCEPT !.avail = v]
    OBVIOUS
  <2>4. x \in Entries /\ x.id = e.id /\ x.file = e.file /\ x.pos = p /\ x.fpos = q /\ x.avail = v /\ x.from = z
    BY <1>7, <2>2, <2>3 DEF Entries
  <2>5. table' = [table EXCEPT ![Slot] = x]
    BY <1>4, <1>15, <2>1, <2>3
  <2>6. srv' \in [Ids -> Handles \cup {NoHandle}] /\ srv' = srv
    BY <1>15 DEF Inv, Typed
  <2>7. Clean(op.f) => x.from.file = op.f /\ srv'[Id].file = op.f
    BY <1>4, <1>9, <2>4, <2>6
  <2>8. Local /\ table'[Slot] = x
    BY <1>1, <1>2, <1>4, <1>13, <2>4, <2>5, <2>6, <2>7, LocalStep
  <2>9. PICK r : r = [o EXCEPT !.pc = "fd"]
    OBVIOUS
  <2>10. /\ r \in Ops /\ r.f = o.f /\ r.call = o.call /\ r.arg = o.arg /\ r.part = o.part /\ r.pc = "fd"
         /\ r.done = o.done /\ r.have = o.have /\ r.data = o.data /\ r.again = o.again
    BY <2>9 DEF Ops
  <2>11. op' = r
    BY <1>4, <1>15, <2>9
  <2>12. Arguments'
    <3>1. op'.call = "read" /\ op'.arg = op.arg /\ op'.done = op.done /\ op'.pc = "fd"
      BY <1>3, <1>4, <2>10, <2>11
    <3>2. op'.part = op.part /\ op'.again = op.again /\ (~ op.again => op.part = 0)
      BY <1>1, <1>2, <1>4, <2>10, <2>11 DEF Inv, Arguments, OnEntry
    <3>3. QED
      BY <1>2, <1>3, <3>1, <3>2 DEF Arguments, InRead
  <2>13. Clean(op.f) /\ w # Unknown => Level(x, srv[Id]) /\ x.pos = w + c + b
    <3> SUFFICES ASSUME Clean(op.f), w # Unknown PROVE Level(x, srv[Id]) /\ x.pos = w + c + b
      OBVIOUS
    <3>1. z.pos = q - v
      BY <1>7, <1>10, <2>1, <2>2 DEF Filled
    <3>2. QED
      BY <1>4, <1>7, <1>10, <2>4, <3>1 DEF Level
  <2>14. UNCHANGED <<got, want>>
    BY <1>12
  <2>15. /\ Clean(op.f) => \A d \in Units : d < op'.done => op'.data[d].file = op.f
         /\ Clean(op.f) /\ want[op.f] # Unknown =>
              /\ \A d \in Units : d < op'.done => op'.data[d].pos = want[op.f] + op.part + d
              /\ Level(table'[Slot], srv'[Id])
              /\ table'[Slot].pos = want[op.f] + op.part + op'.done
              /\ op'.pc = "fill" => Filled(table'[Slot], op'.have)
    BY <1>4, <1>7, <1>11, <2>6, <2>8, <2>10, <2>11, <2>13
  <2>16. op' \in Ops /\ op'.f = op.f /\ op'.call = op.call /\ op'.arg = op.arg /\ op'.part = op.part /\ op'.pc \in {"fd", "fill"}
    BY <1>4, <2>10, <2>11
  <2>17. QED
    BY <1>1, <2>8, <2>12, <2>14, <2>15, <2>16, CallGoesOn
<1>16. QED
  BY <1>5, <1>14, <1>15 DEF _tnfs_fill_cache

LEMMA WriteSeekStep ==
  ASSUME Inv, WriteSeek
  PROVE  Inv'
<1> USE DEF OnHandle
<1>1. OnEntry
  BY Kinds DEF Inv, WriteSeek, OnEntry
<1>2. /\ op \in Ops /\ op.pc = "fd" /\ Slot # 0 /\ Slot \in Slots /\ table[Slot] \in Entries
      /\ Id \in Ids /\ op.f \in Files /\ srv[Id] # NoHandle
  BY <1>1, InHandleCall DEF WriteSeek, Alive
<1>3. PICK e \in Entries, h \in Handles : e = table[Slot] /\ h = srv[Id]
  BY <1>2 DEF Inv, Typed
<1>4. PICK p, t : p = e.pos /\ t = Dropped(e)
  OBVIOUS
<1>5. /\ p \in 0 .. MaxPos /\ t \in Entries /\ t.id = e.id /\ t.file = e.file /\ t.pos = p
      /\ t.avail = 0 /\ t.from.file = e.file
  BY <1>4, Records, DroppedEntry
<1>6. PICK x : x = [t EXCEPT !.fpos = p]
  OBVIOUS
<1>7. x \in Entries /\ x.id = t.id /\ x.file = t.file /\ x.pos = t.pos /\ x.fpos = p /\ x.avail = t.avail /\ x.from = t.from
  BY <1>5, <1>6, MovedFile
<1>8. /\ table' = [table EXCEPT ![Slot] = x] /\ srv' = [srv EXCEPT ![Id].pos = p]
      /\ UNCHANGED <<handle, op, got, want, expired, troubles, mixed>>
  BY <1>3, <1>4, <1>6 DEF WriteSeek
<1>9. /\ srv' \in [Ids -> Handles \cup {NoHandle}] /\ \A i \in Ids : i # Id => srv'[i] = srv[i]
      /\ srv'[Id] # NoHandle /\ srv'[Id].file = h.file /\ srv'[Id].pos = p
  BY <1>1, <1>2, <1>3, <1>5, <1>8, ServerMoved
<1>10. expired' \in BOOLEAN /\ troubles' \in 0 .. MaxTroubles /\ handle' = handle /\ mixed' = mixed
  BY <1>8 DEF Inv, Typed
<1>11. Clean(op.f) => x.from.file = op.f /\ srv'[Id].file = op.f
  BY <1>1, <1>2, <1>3, <1>5, <1>7, <1>9, OwnFiles
<1>12. Local /\ table'[Slot] = x
  BY <1>1, <1>2, <1>3, <1>5, <1>7, <1>8, <1>9, <1>10, <1>11, LocalStep
<1>13. op' = op /\ want' = want /\ got' = got
  BY <1>8
<1>14. Arguments'
  BY <1>13 DEF Inv, Arguments, InOpen, InRead
<1>15. Level(x, srv'[Id])
  BY <1>5, <1>7, <1>9 DEF Level
<1>16. /\ Clean(op.f) => \A d \in Units : d < op'.done => op'.data[d].file = op.f
       /\ Clean(op.f) /\ want[op.f] # Unknown =>
            /\ \A d \in Units : d < op'.done => op'.data[d].pos = want[op.f] + op.part + d
  BY <1>1, <1>13 DEF Inv, Buffer, OnEntry
<1>17. Clean(op.f) /\ want[op.f] # Unknown =>
         table'[Slot].pos = want[op.f] + op.part + op'.done /\ Level(table'[Slot], srv'[Id]) /\ op'.pc # "fill"
  BY <1>1, <1>2, <1>3, <1>4, <1>5, <1>7, <1>12, <1>13, <1>15, CallPlaced
<1>18. QED
  BY <1>1, <1>2, <1>12, <1>13, <1>14, <1>16, <1>17, CallGoesOn

LEMMA WriteStep ==
  ASSUME Inv, tnfs_write
  PROVE  Inv'
<1> USE DEF OnHandle
<1>1. OnEntry
  BY Kinds DEF Inv, tnfs_write, OnEntry
<1>2. /\ op \in Ops /\ op.pc = "fd" /\ op.call = "write" /\ Slot # 0 /\ Slot \in Slots /\ table[Slot] \in Entries
      /\ Id \in Ids /\ op.f \in Files /\ srv[Id] # NoHandle
  BY <1>1, InHandleCall DEF tnfs_write, Alive
<1>3. PICK e \in Entries, h \in Handles : e = table[Slot] /\ h = srv[Id]
  BY <1>2 DEF Inv, Typed
<1>4. PICK p, t, q, k : p = e.pos /\ t = Dropped(e) /\ q = h.pos /\ k = q + 1
  OBVIOUS
<1>5. /\ p \in 0 .. MaxPos /\ t \in Entries /\ t.id = e.id /\ t.file = e.file /\ t.pos = p
      /\ t.fpos = e.fpos /\ t.avail = 0 /\ t.from.file = e.file /\ q \in 0 .. MaxPos
  BY <1>4, Records, DroppedEntry
<1>6. e.fpos = p /\ p < MaxPos /\ q < MaxPos
  BY <1>3, <1>4 DEF tnfs_write, Apart, Room
<1>7. PICK y : y = p + 1
  OBVIOUS
<1>8. y \in 0 .. MaxPos /\ k \in 0 .. MaxPos
  BY <1>4, <1>5, <1>6, <1>7, Parameters
<1>9. PICK x : x = [t EXCEPT !.pos = y, !.fpos = y]
  OBVIOUS
<1>10. x \in Entries /\ x.id = t.id /\ x.file = t.file /\ x.pos = y /\ x.fpos = y /\ x.avail = t.avail /\ x.from = t.from
  BY <1>5, <1>8, <1>9 DEF Entries
<1>11. PICK data : data = [NoData EXCEPT ![0] = At(h.file, q)]
  OBVIOUS
<1>12. /\ table' = [table EXCEPT ![Slot] = x] /\ srv' = [srv EXCEPT ![Id].pos = k]
       /\ UNCHANGED <<handle, expired, troubles, mixed>>
  <2>1. e.fpos + 1 = y
    BY <1>6, <1>7
  <2>2. QED
    BY <1>3, <1>4, <1>9, <2>1 DEF tnfs_write
<1>13. Transferred(1, data)
  BY <1>3, <1>4, <1>11 DEF tnfs_write
<1>14. /\ srv' \in [Ids -> Handles \cup {NoHandle}] /\ \A i \in Ids : i # Id => srv'[i] = srv[i]
       /\ srv'[Id] # NoHandle /\ srv'[Id].file = h.file /\ srv'[Id].pos = k
  BY <1>1, <1>2, <1>3, <1>8, <1>12, ServerMoved
<1>15. expired' \in BOOLEAN /\ troubles' \in 0 .. MaxTroubles /\ handle' = handle /\ mixed' = mixed
  BY <1>12 DEF Inv, Typed
<1>16. Clean(op.f) => x.from.file = op.f /\ srv'[Id].file = op.f /\ h.file = op.f
  BY <1>1, <1>2, <1>3, <1>5, <1>10, <1>14, OwnFiles
<1>17. Local /\ table'[Slot] = x
  BY <1>1, <1>2, <1>3, <1>5, <1>10, <1>12, <1>14, <1>15, <1>16, LocalStep
<1>18. data[0] = At(h.file, q) /\ data[0].file = h.file /\ data[0].pos = q
  <2>1. 0 \in Units
    BY Parameters DEF Units
  <2>2. data[0] = At(h.file, q)
    BY <1>11, <2>1 DEF NoData
  <2>3. QED
    BY <2>2 DEF At
<1>19. \A d \in 0 .. 1 - 1 : d = 0
  OBVIOUS
<1>20. op.done = 0 /\ op.part = 0
  BY <1>1, <1>2 DEF Inv, Arguments, OnEntry
<1>21. Clean(op.f) => \A d \in 0 .. 1 - 1 : data[d].file = op.f
  BY <1>16, <1>18, <1>19
<1>22. Clean(op.f) /\ want[op.f] # Unknown =>
         /\ \A d \in 0 .. 1 - 1 : data[d].pos = want[op.f] + op.part + d
         /\ Level(table'[Slot], srv'[Id])
         /\ table'[Slot].pos = want[op.f] + op.part + 1
  <2> SUFFICES ASSUME Clean(op.f), want[op.f] # Unknown
               PROVE  /\ \A d \in 0 .. 1 - 1 : data[d].pos = want[op.f] + op.part + d
                      /\ Level(table'[Slot], srv'[Id])
                      /\ table'[Slot].pos = want[op.f] + op.part + 1
    OBVIOUS
  <2>1. PICK w : w = want[op.f]
    OBVIOUS
  <2>2. w \in Nat
    BY <1>1, <2>1, InHandleCall
  <2>3. Level(e, h) /\ p = w + 0 + 0
    BY <1>1, <1>2, <1>3, <1>4, <1>20, <2>1, CallPlaced
  <2>4. q = w /\ p = w
    <3>1. q = e.fpos
      BY <1>3, <1>4, <2>3, Records DEF Level
    <3>2. QED
      BY <1>6, <2>2, <2>3, <3>1
  <2>5. k = y /\ y = w + 0 + 1
    BY <1>4, <1>7, <2>2, <2>4
  <2>6. Level(x, srv'[Id])
    BY <1>5, <1>10, <1>14, <2>5 DEF Level
  <2>7. \A d \in 0 .. 1 - 1 : data[d].pos = w + 0 + d
    BY <1>18, <1>19, <2>2, <2>4
  <2>8. QED
    BY <1>10, <1>17, <1>20, <2>1, <2>5, <2>6, <2>7
<1>23. QED
  BY <1>1, <1>13, <1>17, <1>21, <1>22, CallTransfers

\* A seek is done, the user's or that of a recovery.
LEMMA SeekDone ==
  ASSUME Inv, OnEntry, Seeking, Local, NEW STATE next, next \in {Unknown, op.arg}, SeekReturns(next),
         table'[Slot].pos = Target,
         Clean(op.f) /\ (IF op.pc = "seekback" THEN want[op.f] # Unknown ELSE next # Unknown) => Level(table'[Slot], srv'[Id])
  PROVE  Inv'
<1>1. op \in Ops /\ op.f \in Files /\ op.part \in Nat /\ want[op.f] \in Nat \cup {Unknown}
  BY InHandleCall, OpFields
<1>2. CASE op.pc = "seekback"
  <2>1. op' = [op EXCEPT !.pc = "fd", !.again = TRUE] /\ UNCHANGED <<got, want>>
    BY <1>2 DEF SeekReturns
  <2>2. PICK o \in Ops : o = op
    BY <1>1
  <2>3. PICK r : r = [o EXCEPT !.pc = "fd", !.again = TRUE]
    OBVIOUS
  <2>4. /\ r \in Ops /\ r.f = o.f /\ r.call = o.call /\ r.arg = o.arg /\ r.part = o.part /\ r.pc = "fd"
        /\ r.done = o.done /\ r.have = o.have /\ r.data = o.data /\ r.again = TRUE
    BY <2>3 DEF Ops
  <2>5. op' = r
    BY <2>1, <2>2, <2>3
  <2>6. op.done = 0 /\ op.call \notin {"write", "close", "open"}
    BY <1>2, InHandleCall DEF Inv, Arguments, OnEntry
  <2>7. Arguments'
    <3>1. /\ op'.call = op.call /\ op'.arg = op.arg /\ op'.done = 0 /\ op'.pc = "fd" /\ op'.part = op.part
          /\ op.call \notin {"write", "close", "open"} /\ op'.again = TRUE
      BY <2>2, <2>4, <2>5, <2>6
    <3>2. /\ op.call = "read" => op.arg \in 1 .. MaxRead
          /\ op.call = "seek" => op.arg \in 0 .. MaxPos
          /\ op.call # "read" => op.part = 0
      BY DEF Inv, Arguments, InRead, OnEntry
    <3>3. op'.call = "read" => InRead'
      BY <3>1, <3>2 DEF InRead
    <3>4. QED
      BY <3>1, <3>2, <3>3 DEF Arguments
  <2>8. Clean(op.f) /\ want[op.f] # Unknown => table'[Slot].pos = want[op.f] + op.part + op'.done
    <3> SUFFICES ASSUME Clean(op.f), want[op.f] # Unknown
                 PROVE  table'[Slot].pos = want[op.f] + op.part + op'.done
      OBVIOUS
    <3>1. PICK w, c : w = want[op.f] /\ c = op.part
      OBVIOUS
    <3>2. op.pos = w + c /\ w \in Nat /\ c \in Nat
      BY <1>1, <1>2, <3>1, CallPlaced
    <3>3. op'.done = 0 /\ table'[Slot].pos = w + c
      BY <1>2, <2>2, <2>4, <2>5, <2>6, <3>2 DEF Target
    <3>4. w + c + 0 = w + c
      BY <3>2
    <3>5. QED
      BY <3>1, <3>3, <3>4
  <2>9. \A d \in Units : ~ (d < op'.done)
    BY <2>2, <2>4, <2>5, <2>6, Parameters DEF Units
  <2>10. op' \in Ops /\ op'.f = op.f /\ op'.call = op.call /\ op'.arg = op.arg /\ op'.part = op.part /\ op'.pc = "fd"
    BY <2>2, <2>4, <2>5
  <2>11. Clean(op.f) /\ want[op.f] # Unknown => Level(table'[Slot], srv'[Id])
    BY <1>2
  <2>12. QED
    BY <2>1, <2>7, <2>8, <2>9, <2>10, <2>11, CallGoesOn
<1>3. CASE op.pc # "seekback"
  <2>1. Ends(next)
    BY <1>3 DEF SeekReturns
  <2>2. op.call = "seek" /\ Target = op.arg
    BY <1>3 DEF Seeking, OnHandle, Target
  <2>3. op.arg \in Nat
    BY <2>2, Parameters DEF Inv, Arguments, OnEntry
  <2>4. next \in Nat \cup {Unknown}
    BY <2>3
  <2>5. Clean(op.f) /\ next # Unknown => Level(table'[Slot], srv'[Id]) /\ table'[Slot].pos = next
    BY <1>3, <2>2
  <2>6. QED
    BY <2>1, <2>4, <2>5, CallEnds
<1>4. QED
  BY <1>2, <1>3

LEMMA SeekTarget ==
  ASSUME Inv, Seeking
  PROVE  OnEntry /\ op \in Ops /\ Target \in 0 .. MaxPos
<1>1. OnEntry
  BY Kinds DEF Inv, Seeking, OnHandle, OnEntry
<1>2. op \in Ops
  BY <1>1, InHandleCall
<1>3. op.pos \in 0 .. MaxPos
  BY <1>2, OpFields
<1>4. op.call = "seek" => op.arg \in 0 .. MaxPos
  BY <1>1 DEF Inv, Arguments, OnEntry
<1>5. QED
  BY <1>1, <1>2, <1>3, <1>4 DEF Seeking, OnHandle, Target

LEMMA CacheSeekStep ==
  ASSUME Inv, _tnfs_cache_seek
  PROVE  Inv'
<1>1. Seeking /\ Slot # 0
  BY DEF _tnfs_cache_seek
<1>2. OnEntry /\ op \in Ops /\ Target \in 0 .. MaxPos
  BY <1>1, SeekTarget
<1>3. PICK e \in Entries, p \in 0 .. MaxPos : e = table[Slot] /\ p = Target
  BY <1>1, <1>2, InHandleCall
<1>4. PICK x : x = [e EXCEPT !.pos = p]
  OBVIOUS
<1>5. x \in Entries /\ x.id = e.id /\ x.file = e.file /\ x.pos = p /\ x.fpos = e.fpos /\ x.avail = e.avail /\ x.from = e.from
  BY <1>4, MovedPos
<1>6. table' = [table EXCEPT ![Slot] = x] /\ UNCHANGED <<handle, srv, expired, troubles, mixed>>
  BY <1>3, <1>4 DEF _tnfs_cache_seek
<1>7. /\ expired' \in BOOLEAN /\ troubles' \in 0 .. MaxTroubles /\ srv' \in [Ids -> Handles \cup {NoHandle}]
      /\ handle' = handle /\ mixed' = mixed /\ srv' = srv
  BY <1>6 DEF Inv, Typed
<1>8. Clean(op.f) => x.from.file = op.f /\ (srv'[Id] = NoHandle \/ srv'[Id].file = op.f)
  BY <1>2, <1>3, <1>5, <1>7, OwnFiles
<1>9. Local /\ table'[Slot] = x
  BY <1>1, <1>2, <1>3, <1>5, <1>6, <1>7, <1>8, LocalStep
<1>10. Clean(op.f) /\ want[op.f] # Unknown => Level(table'[Slot], srv'[Id])
  <2>1. Clean(op.f) /\ want[op.f] # Unknown => Level(e, srv[Id])
    BY <1>2, <1>3, CallPlaced
  <2>2. QED
    BY <1>5, <1>7, <1>9, <2>1 DEF Level
<1>11. PICK n : n = IF want[op.f] = Unknown THEN Unknown ELSE op.arg
  OBVIOUS
<1>12. SeekReturns(n) /\ n \in {Unknown, op.arg} /\ (n # Unknown => want[op.f] # Unknown)
  BY <1>11 DEF _tnfs_cache_seek
<1>13. table'[Slot].pos = Target
  BY <1>3, <1>5, <1>9
<1>14. QED
  BY <1>1, <1>2, <1>9, <1>10, <1>12, <1>13, SeekDone

LEMMA SeekStep ==
  ASSUME Inv, tnfs_lseek
  PROVE  Inv'
<1>1. Seeking /\ Slot # 0 /\ srv[Id] # NoHandle
  BY DEF tnfs_lseek, Alive
<1>2. OnEntry /\ op \in Ops /\ Target \in 0 .. MaxPos /\ Id \in Ids
  BY <1>1, SeekTarget, InHandleCall
<1>3. PICK e \in Entries, p \in 0 .. MaxPos : e = table[Slot] /\ p = Target
  BY <1>1, <1>2, InHandleCall
<1>4. PICK t : t = Dropped(e)
  OBVIOUS
<1>5. t \in Entries /\ t.id = e.id /\ t.file = e.file /\ t.avail = 0 /\ t.from.file = e.file
  BY <1>4, DroppedEntry
<1>6. PICK x : x = [t EXCEPT !.pos = p, !.fpos = p]
  OBVIOUS
<1>7. x \in Entries /\ x.id = t.id /\ x.file = t.file /\ x.pos = p /\ x.fpos = p /\ x.avail = t.avail /\ x.from = t.from
  BY <1>5, <1>6 DEF Entries
<1>8. /\ table' = [table EXCEPT ![Slot] = x] /\ srv' = [srv EXCEPT ![Id].pos = p]
      /\ UNCHANGED <<handle, expired, troubles, mixed>>
  BY <1>3, <1>4, <1>6 DEF tnfs_lseek
<1>9. /\ srv' \in [Ids -> Handles \cup {NoHandle}] /\ \A i \in Ids : i # Id => srv'[i] = srv[i]
      /\ srv'[Id] # NoHandle /\ srv'[Id].file = srv[Id].file /\ srv'[Id].pos = p
  BY <1>1, <1>2, <1>8, ServerMoved
<1>10. expired' \in BOOLEAN /\ troubles' \in 0 .. MaxTroubles /\ handle' = handle /\ mixed' = mixed
  BY <1>8 DEF Inv, Typed
<1>11. Clean(op.f) => x.from.file = op.f /\ srv'[Id].file = op.f
  BY <1>1, <1>2, <1>3, <1>5, <1>7, <1>9, OwnFiles
<1>12. Local /\ table'[Slot] = x
  BY <1>1, <1>2, <1>3, <1>5, <1>7, <1>8, <1>9, <1>10, <1>11, LocalStep
<1>13. Level(table'[Slot], srv'[Id])
  BY <1>5, <1>7, <1>9, <1>12 DEF Level
<1>14. SeekReturns(op.arg) /\ op.arg \in {Unknown, op.arg}
  BY DEF tnfs_lseek
<1>15. table'[Slot].pos = Target
  BY <1>3, <1>7, <1>12
<1>16. QED
  BY <1>1, <1>2, <1>12, <1>13, <1>14, <1>15, SeekDone

LEMMA TroubleCounted ==
  ASSUME Inv, NEW x, Trouble(x)
  PROVE  troubles' \in 0 .. MaxTroubles
BY Parameters DEF Inv, Typed, Trouble

LEMMA FailStep ==
  ASSUME Inv, HandleFails
  PROVE  Inv'
<1>1. OnEntry
  BY Kinds DEF Inv, HandleFails, OnHandle, OnEntry
<1>2. Ends(Unknown) /\ handle' = handle /\ mixed' = mixed
  BY DEF HandleFails
<1>3. op \in Ops /\ Id \in Ids /\ op.f \in Files /\ ~ Opening /\ op # Idle
  BY <1>1, InHandleCall DEF OnEntry
<1>4. Clean(op.f) => OfFile(op.f, table[Slot], srv[Id])
  BY <1>1, <1>3, OwnEntry
<1>5. CASE UNCHANGED <<table, srv, expired, troubles>>
  <2>1. Local
    <3>1. /\ expired' \in BOOLEAN /\ troubles' \in 0 .. MaxTroubles /\ table' = table /\ srv' = srv
          /\ table' \in [Slots -> Entries \cup {NoEntry}] /\ srv' \in [Ids -> Handles \cup {NoHandle}]
      BY <1>5 DEF Inv, Typed
    <3>2. Slot # 0 => table[Slot] \in Entries
      BY <1>1, InHandleCall
    <3>3. QED
      BY <1>2, <1>4, <3>1, <3>2 DEF Local
  <2>2. QED
    BY <1>1, <1>2, <2>1, CallEnds
<1>6. CASE /\ Slot # 0 /\ Sending /\ table' = [table EXCEPT ![Slot] = Dropped(@)]
           /\ \/ /\ ~ Alive /\ expired' = FALSE /\ UNCHANGED <<srv, troubles>>
              \/ Alive /\ Refuses /\ UNCHANGED <<srv, expired, troubles>>
              \/ Trouble("unsent") /\ UNCHANGED <<srv, expired>>
              \/ Alive /\ Trouble("unanswered") /\ Executed /\ UNCHANGED expired
  <2>1. PICK e \in Entries : e = table[Slot]
    BY <1>1, <1>6, InHandleCall
  <2>2. PICK x : x = Dropped(e)
    OBVIOUS
  <2>3. x \in Entries /\ x.id = e.id /\ x.file = e.file /\ x.from.file = e.file
    BY <2>2, DroppedEntry
  <2>4. table' = [table EXCEPT ![Slot] = x]
    BY <1>6, <2>1, <2>2
  <2>5. expired \in BOOLEAN /\ troubles \in 0 .. MaxTroubles /\ srv \in [Ids -> Handles \cup {NoHandle}]
    BY DEF Inv, Typed
  <2>6. expired' \in BOOLEAN /\ troubles' \in 0 .. MaxTroubles
    <3>1. expired' = FALSE \/ expired' = expired
      BY <1>6
    <3>2. troubles' = troubles \/ Trouble("unsent") \/ Trouble("unanswered")
      BY <1>6
    <3>3. expired' \in BOOLEAN
      BY <2>5, <3>1
    <3>4. troubles' \in 0 .. MaxTroubles
      BY <2>5, <3>2, TroubleCounted
    <3>5. QED
      BY <3>3, <3>4
  <2>7. srv' = srv \/ (srv[Id] # NoHandle /\ \E p \in 0 .. MaxPos : srv' = [srv EXCEPT ![Id].pos = p])
    <3>1. CASE srv' = srv
      BY <3>1
    <3>2. CASE Alive /\ Executed
      <4>1. srv[Id] # NoHandle /\ srv[Id] \in Handles
        BY <1>3, <2>5, <3>2 DEF Alive
      <4>2. srv[Id].pos \in 0 .. MaxPos /\ e.pos \in 0 .. MaxPos
        BY <4>1, Records
      <4>3. CASE Seeking /\ srv' = [srv EXCEPT ![Id].pos = Target]
        BY <4>1, <4>3, SeekTarget
      <4>4. CASE srv' = [srv EXCEPT ![Id].pos = table[Slot].pos]
        BY <2>1, <4>1, <4>2, <4>4
      <4>5. CASE Room /\ srv' = [srv EXCEPT ![Id].pos = @ + 1]
        <5>1. PICK q, k : q = srv[Id].pos /\ k = q + 1
          OBVIOUS
        <5>2. q < MaxPos
          BY <4>5, <5>1 DEF Room
        <5>3. k \in 0 .. MaxPos
          BY <4>2, <5>1, <5>2, Parameters
        <5>4. srv' = [srv EXCEPT ![Id].pos = k]
          BY <4>5, <5>1
        <5>5. QED
          BY <4>1, <5>3, <5>4
      <4>6. QED
        BY <3>2, <4>3, <4>4, <4>5 DEF Executed
    <3>3. QED
      BY <1>6, <3>1, <3>2
  <2>8. /\ srv' \in [Ids -> Handles \cup {NoHandle}] /\ \A i \in Ids : i # Id => srv'[i] = srv[i]
        /\ Clean(op.f) => srv'[Id] = NoHandle \/ srv'[Id].file = op.f
    <3>1. Clean(op.f) => srv[Id] = NoHandle \/ srv[Id].file = op.f
      BY <1>1, OwnFiles
    <3>2. CASE srv' = srv
      BY <2>5, <3>1, <3>2
    <3>3. CASE srv[Id] # NoHandle /\ \E p \in 0 .. MaxPos : srv' = [srv EXCEPT ![Id].pos = p]
      <4>1. PICK p \in 0 .. MaxPos : srv' = [srv EXCEPT ![Id].pos = p]
        BY <3>3
      <4>2. /\ srv' \in [Ids -> Handles \cup {NoHandle}] /\ \A i \in Ids : i # Id => srv'[i] = srv[i]
            /\ srv'[Id].file = srv[Id].file
        BY <1>1, <3>3, <4>1, ServerMoved
      <4>3. QED
        BY <3>1, <3>3, <4>2
    <3>4. QED
      BY <2>7, <3>2, <3>3
  <2>9. Clean(op.f) => x.from.file = op.f
    BY <1>1, <2>1, <2>3, OwnFiles
  <2>10. Local
    BY <1>1, <1>2, <1>6, <2>1, <2>3, <2>4, <2>6, <2>8, <2>9, LocalStep
  <2>11. QED
    BY <1>1, <1>2, <2>10, CallEnds
<1>7. QED
  BY <1>5, <1>6 DEF HandleFails

\* Closed handlers are of no concern: the entry and the server's handle go.
LEMMA CloseStep ==
  ASSUME Inv, close
  PROVE  Inv'
<1>1. OnEntry /\ op.call = "close"
  BY Kinds DEF Inv, close, OnHandle, OnEntry
<1>2. op \in Ops /\ op # Idle /\ ~ Opening /\ Id \in Ids
  BY <1>1, InHandleCall DEF OnEntry
<1>3. PICK f \in Files : f = op.f
  BY <1>1, InHandleCall
<1>4. PICK h, s : h = Id /\ s = Slot
  OBVIOUS
<1>5. op' = Idle /\ got' = Nothing /\ want' = [want EXCEPT ![f] = Unknown] /\ handle' = [handle EXCEPT ![f] = Closed]
      /\ mixed' = mixed
  BY <1>3 DEF close, Ends
<1>6. h = handle[f] /\ h # Closed /\ (s # 0 => s \in Slots /\ table[s].id = h)
  BY <1>1, <1>3, <1>4, InHandleCall
<1>7. /\ table \in [Slots -> Entries \cup {NoEntry}] /\ handle \in [Files -> Ids \cup {Closed}]
      /\ want \in [Files -> Nat \cup {Unknown}] /\ srv \in [Ids -> Handles \cup {NoHandle}]
      /\ expired \in BOOLEAN /\ troubles \in 0 .. MaxTroubles /\ mixed \subseteq Files
  BY DEF Inv, Typed
<1>8. table' = table \/ (s # 0 /\ table' = [table EXCEPT ![s] = NoEntry])
  BY <1>4 DEF close
<1>9. srv' = srv \/ srv' = [srv EXCEPT ![h] = NoHandle]
  BY <1>4 DEF close
<1>10. expired' = FALSE \/ expired' = expired
  BY DEF close
<1>11. troubles' = troubles \/ Trouble("unsent") \/ Trouble("unanswered")
  BY DEF close
<1>12. /\ table' \in [Slots -> Entries \cup {NoEntry}]
       /\ \A t \in Slots : t # s => table'[t] = table[t]
       /\ \A t \in Slots : table'[t] # NoEntry => table'[t] = table[t]
  BY <1>6, <1>7, <1>8
<1>13. srv' \in [Ids -> Handles \cup {NoHandle}] /\ \A i \in Ids : i # h => srv'[i] = srv[i]
  BY <1>2, <1>4, <1>7, <1>9
<1>14. handle' \in [Files -> Ids \cup {Closed}] /\ handle'[f] = Closed /\ \A g \in Files : g # f => handle'[g] = handle[g]
  BY <1>5, <1>7
<1>15. want' \in [Files -> Nat \cup {Unknown}] /\ \A g \in Files : g # f => want'[g] = want[g]
  BY <1>5, <1>7
<1>16. expired' \in BOOLEAN /\ troubles' \in 0 .. MaxTroubles
  <2>1. expired' \in BOOLEAN
    BY <1>7, <1>10
  <2>2. troubles' \in 0 .. MaxTroubles
    BY <1>7, <1>11, TroubleCounted
  <2>3. QED
    BY <2>1, <2>2
<1>17. Typed'
  BY <1>5, <1>7, <1>12, <1>13, <1>14, <1>15, <1>16 DEF Typed
<1>18. ~ Opening'
  BY <1>5 DEF Opening, Idle
<1>19. Arguments' /\ Buffer' /\ InCall'
  BY <1>5, <1>18 DEF Arguments, Buffer, InCall
<1>20. Shown' \subseteq Shown /\ \A t \in Slots : t \in Shown /\ t # s => t \in Shown'
  BY <1>2, <1>12, <1>18 DEF Shown, UsedSlots
<1>21. ASSUME NEW g \in Files, g # f PROVE Sound(g)'
  <2>1. Clean(g)' => Clean(g)
    BY <1>5, <1>14, <1>21 DEF Clean
  <2>2. ~ Busy(g) /\ ~ Busy(g)'
    BY <1>3, <1>5, <1>21 DEF Busy
  <2>3. Clean(g) => h # handle[g] /\ handle[g] \in Ids
    BY <1>6, <1>7, <1>21 DEF Inv, Sound, Alone, Clean
  <2>4. Clean(g) => \A t \in Slots : Sole(t, g) => table'[t] = table[t] /\ t \in Shown'
    <3>1. Clean(g) => \A t \in Slots : Sole(t, g) => t \in Shown /\ table[t].id = handle[g]
      BY DEF Sole, Mine
    <3>2. Clean(g) => \A t \in Slots : Sole(t, g) => t # s
      BY <1>6, <2>3, <3>1, Records
    <3>3. QED
      BY <1>12, <1>20, <3>1, <3>2
  <2>5. \A t \in Shown' : table'[t].id = handle[g] => t \in Shown /\ table[t].id = handle[g]
    <3>1. \A t \in Shown' : t \in Slots /\ table'[t] # NoEntry
      BY <1>18 DEF Shown, UsedSlots
    <3>2. QED
      BY <1>12, <1>20, <3>1
  <2>6. Clean(g) => srv'[handle[g]] = srv[handle[g]]
    BY <1>13, <2>3
  <2>7. Clean(g) => \A k \in Files : handle'[k] = handle[g] => handle[k] = handle[g]
    BY <1>14 DEF Clean
  <2>8. handle'[g] = handle[g] /\ want'[g] = want[g]
    BY <1>14, <1>15, <1>21
  <2>9. QED
    BY <2>1, <2>2, <2>4, <2>5, <2>6, <2>7, <2>8, OtherSound
<1>22. Sound(f)'
  BY <1>14 DEF Sound, Clean
<1>23. QED
  BY <1>5, <1>17, <1>19, <1>21, <1>22, GotNothing DEF Inv

-----------------------------------------------------------------------------
(***************************************************************************)
(* Calls begin, and the session expires.                                   *)
(***************************************************************************)
\* The entries, the handlers and where they are stay as they were.
LEMMA SameSound ==
  ASSUME Inv, NEW g \in Files, Clean(g)' => Clean(g), handle' = handle, table' = table, want' = want, Shown' = Shown,
         \A i \in Ids : srv'[i] = srv[i] \/ srv'[i] = NoHandle,
         Recovering(g)' <=> Recovering(g), Moved(g)' = Moved(g),
         Recovering(g) => op'.pos = op.pos /\ op'.part = op.part,
         Busy(g)' /\ op'.pc = "fill" => Busy(g) /\ op.pc = "fill" /\ op'.have = op.have
  PROVE  Sound(g)'
<1> SUFFICES ASSUME Clean(g)' PROVE Sound(g)'
  BY DEF Sound
<1>1. Clean(g) /\ Sound(g) /\ handle[g] \in Ids
  BY DEF Inv, Typed, Clean
<1>2. PICK s \in Slots : /\ Sole(s, g) /\ OfFile(g, table[s], srv[handle[g]])
                         /\ want[g] # Unknown => PlacedAt(table[s], g)
  BY <1>1 DEF Sound
<1>3. Sole(s, g)' /\ Alone(g)'
  BY <1>1, <1>2 DEF Sole, Mine, Sound, Alone
<1>4. srv'[handle'[g]] = srv[handle[g]] \/ srv'[handle'[g]] = NoHandle
  BY <1>1
<1>5. OfFile(g, table[s], srv[handle[g]])'
  BY <1>2, <1>4 DEF OfFile
<1>6. ASSUME want'[g] # Unknown PROVE PlacedAt(table[s], g)'
  <2>1. PlacedAt(table[s], g)
    BY <1>2, <1>6
  <2>2. Level(table[s], srv[handle[g]])'
    BY <1>4, <2>1 DEF PlacedAt, Level
  <2>3. Position(table[s], g)'
    BY <2>1 DEF PlacedAt, Position
  <2>4. Busy(g)' /\ op'.pc = "fill" => Filled(table[s], op.have)'
    BY <2>1 DEF PlacedAt
  <2>5. QED
    BY <2>2, <2>3, <2>4 DEF PlacedAt
<1>7. QED
  BY <1>2, <1>3, <1>5, <1>6 DEF Sound

LEMMA ExpiryStep ==
  ASSUME Inv, SessionExpires
  PROVE  Inv'
<1>1. /\ UNCHANGED <<table, handle, op, got, want, mixed>> /\ expired' = TRUE
      /\ srv' = [i \in Ids |-> NoHandle] /\ Trouble("expiry")
  BY DEF SessionExpires
<1>2. troubles' \in 0 .. MaxTroubles /\ srv' \in [Ids -> Handles \cup {NoHandle}]
  BY <1>1, TroubleCounted
<1>3. Typed'
  BY <1>1, <1>2 DEF Inv, Typed
<1>4. Opening' <=> Opening
  BY <1>1 DEF Opening
<1>5. Shown' = Shown
  BY <1>1, <1>4 DEF Shown, UsedSlots
<1>6. Arguments'
  BY <1>1 DEF Inv, Arguments, InOpen, InRead
<1>7. InCall'
  BY <1>1, <1>4, <1>5 DEF Inv, InCall
<1>8. Buffer'
  BY <1>1 DEF Inv, Buffer, Clean
<1>9. ASSUME NEW g \in Files PROVE Sound(g)'
  <2>1. Clean(g)' => Clean(g)
    BY <1>1 DEF Clean
  <2>2. Busy(g)' <=> Busy(g)
    BY <1>1 DEF Busy
  <2>3. (Recovering(g)' <=> Recovering(g)) /\ Moved(g)' = Moved(g)
    BY <1>1, <2>2 DEF Recovering, Moved
  <2>4. \A i \in Ids : srv'[i] = NoHandle
    BY <1>1
  <2>5. QED
    BY <1>1, <1>5, <2>1, <2>2, <2>3, <2>4, SameSound
<1>10. OwnFile' /\ PositionKept'
  BY <1>1, GotKept
<1>11. QED
  BY <1>3, <1>6, <1>7, <1>8, <1>9, <1>10 DEF Inv

LEMMA CallRecord ==
  ASSUME NEW call \in {"open", "read", "write", "seek", "close"}, NEW f \in Files, NEW arg \in Nat \cup Modes,
         NEW pc \in {"stat", "fd"}, NEW o, o = Call(call, f, arg, pc)
  PROVE  /\ o \in Ops /\ o.call = call /\ o.f = f /\ o.arg = arg /\ o.pc = pc /\ o.old = 0
         /\ o.done = 0 /\ o.part = 0
<1>1. PICK m, D : m = NoData /\ D = [Units -> Data]
  OBVIOUS
<1>2. m \in D
  BY <1>1 DEF NoData, Data
<1>3. PICK H, P : H = 0 .. MaxHandles /\ P = 0 .. MaxPos
  OBVIOUS
<1>4. 0 \in H /\ 0 \in P /\ FALSE \in BOOLEAN /\ 0 \in Nat
  BY <1>3, Parameters
<1>5. o = [call |-> call, f |-> f, arg |-> arg, pc |-> pc, slot |-> 0, old |-> 0, pos |-> 0, again |-> FALSE,
           done |-> 0, part |-> 0, have |-> 0, data |-> m]
  BY <1>1 DEF Call
<1>6. o \in Ops
  BY <1>1, <1>2, <1>3, <1>4, <1>5 DEF Ops
<1>7. QED
  BY <1>5, <1>6

LEMMA StartStep ==
  ASSUME Inv, NEW call \in {"read", "write", "seek", "close"}, NEW f \in Files, NEW arg \in Nat,
         call = "read" => arg \in 1 .. MaxRead, call = "seek" => arg \in 0 .. MaxPos,
         StartCall(call, f, arg)
  PROVE  Inv'
<1>1. /\ op = Idle /\ handle[f] # Closed /\ op' = Call(call, f, arg, "fd") /\ got' = Nothing
      /\ UNCHANGED <<table, handle, want, srv, expired, troubles, mixed>>
  BY DEF StartCall
<1>2. /\ op' \in Ops /\ op'.call = call /\ op'.f = f /\ op'.arg = arg /\ op'.pc = "fd"
      /\ op'.done = 0 /\ op'.part = 0
  BY <1>1, CallRecord
<1>3. Typed'
  BY <1>1, <1>2 DEF Inv, Typed
<1>4. ~ Opening /\ ~ Opening'
  BY <1>1, <1>2 DEF Opening, Idle
<1>5. Shown' = Shown
  BY <1>1, <1>4 DEF Shown, UsedSlots
<1>6. Arguments'
  BY <1>2 DEF Arguments, InRead
<1>7. InCall'
  BY <1>1, <1>2, <1>4 DEF InCall
<1>8. Buffer'
  BY <1>2, Parameters DEF Buffer, Units
<1>9. ASSUME NEW g \in Files PROVE Sound(g)'
  <2>1. Clean(g)' => Clean(g)
    BY <1>1 DEF Clean
  <2>2. ~ Busy(g) /\ (Busy(g)' => op'.pc = "fd" /\ op'.done = 0 /\ op'.part = 0)
    BY <1>1, <1>2 DEF Busy
  <2>3. ~ Recovering(g)' /\ ~ Recovering(g) /\ Moved(g)' = 0 /\ Moved(g) = 0
    BY <2>2 DEF Recovering, Moved
  <2>4. QED
    BY <1>1, <1>5, <2>1, <2>2, <2>3, SameSound
<1>10. QED
  BY <1>1, <1>3, <1>6, <1>7, <1>8, <1>9, GotNothing DEF Inv

-----------------------------------------------------------------------------
(***************************************************************************)
(* Opening a file.                                                         *)
(***************************************************************************)
LEMMA FreeSlot ==
  ASSUME FreeSlots # {}
  PROVE  Min(FreeSlots) \in Slots /\ table[Min(FreeSlots)] = NoEntry /\ Min(FreeSlots) \notin UsedSlots
<1>1. FreeSlots \subseteq Nat
  BY DEF FreeSlots, Slots
<1>2. Min(FreeSlots) \in FreeSlots
  BY <1>1, Smallest
<1>3. QED
  BY <1>2 DEF FreeSlots, UsedSlots

LEMMA OpenStarts ==
  ASSUME Inv, NEW f \in Files, NEW mode \in Modes, filehandler_open(f, mode)
  PROVE  Inv'
<1>1. /\ op = Idle /\ handle[f] = Closed /\ got' = Nothing /\ mixed' = mixed \ {f}
      /\ UNCHANGED <<handle, want, srv, expired, troubles>>
  BY DEF filehandler_open
<1>2. ~ Opening
  BY <1>1 DEF Opening, Idle
<1>3. \A g \in Files : Clean(g)' => Clean(g) /\ g # f
  BY <1>1 DEF Clean
<1>4. CASE FreeSlots = {} /\ UNCHANGED <<table, op>>
  <2>1. Typed'
    BY <1>1, <1>4 DEF Inv, Typed
  <2>2. ~ Opening'
    BY <1>1, <1>4 DEF Opening, Idle
  <2>3. Shown' = Shown
    BY <1>2, <1>4, <2>2 DEF Shown, UsedSlots
  <2>4. Arguments' /\ InCall' /\ Buffer'
    BY <1>1, <1>4, <2>2 DEF Arguments, InCall, Buffer
  <2>5. ASSUME NEW g \in Files PROVE Sound(g)'
    <3>1. ~ Busy(g) /\ ~ Busy(g)'
      BY <1>1, <1>4 DEF Busy
    <3>2. ~ Recovering(g)' /\ ~ Recovering(g) /\ Moved(g)' = 0 /\ Moved(g) = 0
      BY <3>1 DEF Recovering, Moved
    <3>3. QED
      BY <1>1, <1>3, <1>4, <2>3, <3>1, <3>2, SameSound
  <2>6. QED
    BY <1>1, <2>1, <2>4, <2>5, GotNothing DEF Inv
<1>5. CASE FreeSlots # {}
  <2>1. PICK s \in Slots : s = Min(FreeSlots) /\ table[s] = NoEntry /\ s \notin UsedSlots
    BY <1>5, FreeSlot
  <2>2. table' = [table EXCEPT ![s] = NewEntry(f)] /\ op' = [Call("open", f, mode, "stat") EXCEPT !.slot = s]
    BY <1>5, <2>1 DEF filehandler_open
  <2>3. PICK o : o = Call("open", f, mode, "stat")
    OBVIOUS
  <2>4. /\ o \in Ops /\ o.call = "open" /\ o.f = f /\ o.arg = mode /\ o.pc = "stat" /\ o.old = 0
        /\ o.done = 0 /\ o.part = 0
    <3>1. PICK a \in Nat \cup Modes : a = mode
      OBVIOUS
    <3>2. o = Call("open", f, a, "stat")
      BY <2>3, <3>1
    <3>3. QED
      BY <3>1, <3>2, CallRecord
  <2>5. op' = [o EXCEPT !.slot = s]
    BY <2>2, <2>3
  <2>6. /\ op' \in Ops /\ op'.call = "open" /\ op'.f = f /\ op'.arg = mode /\ op'.pc = "stat" /\ op'.old = 0
        /\ op'.slot = s /\ op'.done = 0 /\ op'.part = 0
    <3>1. s \in 0 .. MaxHandles
      BY Parameters DEF Slots
    <3>2. QED
      BY <2>4, <2>5, <3>1 DEF Ops
  <2>7. /\ table' \in [Slots -> Entries \cup {NoEntry}] /\ table'[s] = NewEntry(f) /\ table'[s] # NoEntry
        /\ \A t \in Slots : t # s => table'[t] = table[t]
    BY <2>2, Records DEF Inv, Typed
  <2>8. Typed'
    BY <1>1, <2>6, <2>7 DEF Inv, Typed
  <2>9. Opening' /\ op' # Idle
    BY <2>6, OpFields DEF Opening
  <2>10. Shown' = Shown /\ s \notin Shown
    BY <1>2, <2>1, <2>6, <2>7, <2>9 DEF Shown, UsedSlots
  <2>11. Arguments' /\ Buffer'
    <3>1. Arguments'
      BY <2>6 DEF Arguments, InOpen
    <3>2. Buffer'
      BY <2>6, Parameters DEF Buffer, Units
    <3>3. QED
      BY <3>1, <3>2
  <2>12. InCall'
    BY <1>1, <2>6, <2>7, <2>9 DEF InCall
  <2>13. ASSUME NEW g \in Files PROVE Sound(g)'
    <3>1. CASE g = f
      BY <1>3, <3>1 DEF Sound
    <3>2. CASE g # f
      <4>1. ~ Busy(g) /\ ~ Busy(g)'
        BY <1>1, <2>6, <3>2 DEF Busy
      <4>2. \A t \in Slots : Sole(t, g) => table'[t] = table[t] /\ t \in Shown'
        BY <2>7, <2>10 DEF Sole, Mine
      <4>3. \A t \in Shown' : table'[t].id = handle[g] => t \in Shown /\ table[t].id = handle[g]
        BY <2>7, <2>10 DEF Shown, UsedSlots
      <4>4. handle' = handle /\ want' = want /\ srv' = srv
        BY <1>1
      <4>5. QED
        BY <1>3, <4>1, <4>2, <4>3, <4>4, OtherSound
    <3>3. QED
      BY <3>1, <3>2
  <2>14. QED
    BY <1>1, <2>8, <2>11, <2>12, <2>13, GotNothing DEF Inv
<1>6. QED
  BY <1>4, <1>5 DEF filehandler_open

\* The state of an open in progress.
LEMMA InOpening ==
  ASSUME Inv, Opening
  PROVE  /\ op \in Ops /\ op # Idle /\ op.f \in Files /\ op.slot \in Slots /\ op.done = 0
         /\ op.call \notin {"write", "close"} /\ Shown = UsedSlots \ {op.slot} /\ table[op.slot] # NoEntry
         /\ op.call = "open" => op.old = 0 /\ handle[op.f] = Closed /\ op.arg \in Modes
         /\ op.call # "open" => /\ op.old \in Shown /\ op.old \in Slots /\ op.old # 0 /\ op.old # op.slot
                                /\ handle[op.f] # Closed /\ table[op.old].id = handle[op.f]
         /\ \E h \in Files : table[op.slot] = NewEntry(h) /\ (op.call = "open" \/ op.f \notin mixed => h = op.f)
<1>1. op \in Ops /\ op # Idle /\ op.f \in Files /\ op.pc \in {"stat", "open"}
  BY Kinds, OpFields DEF Inv, Opening
<1>2. op.done = 0 /\ op.call \notin {"write", "close"} /\ (op.call = "open" => op.old = 0 /\ op.arg \in Modes)
  BY <1>1 DEF Inv, Arguments, InOpen
<1>3. /\ op.slot \in Slots /\ (handle[op.f] = Closed <=> op.call = "open")
      /\ \E h \in Files : table[op.slot] = NewEntry(h) /\ (op.call = "open" \/ op.f \notin mixed => h = op.f)
      /\ op.call # "open" => op.old \in Shown /\ table[op.old].id = handle[op.f]
  BY <1>1 DEF Inv, InCall
<1>4. Shown = UsedSlots \ {op.slot} /\ table[op.slot] # NoEntry
  BY <1>3, Records DEF Shown
<1>5. op.old \in Shown => op.old \in Slots /\ op.old # 0 /\ op.old # op.slot
  BY <1>4, Records DEF UsedSlots
<1>6. QED
  BY <1>1, <1>2, <1>3, <1>4, <1>5

LEMMA StatStep ==
  ASSUME Inv, tnfs_stat
  PROVE  Inv'
<1>1. /\ op.call # "none" /\ op.pc = "stat" /\ op' = [op EXCEPT !.pc = "open"] /\ expired' = FALSE
      /\ UNCHANGED <<table, handle, got, want, srv, troubles, mixed>>
  BY DEF tnfs_stat
<1>2. Opening
  BY <1>1 DEF Opening
<1>3. op \in Ops /\ op # Idle /\ op.done = 0 /\ op.call \notin {"write", "close"}
  BY <1>2, InOpening
<1>4. PICK o \in Ops : o = op
  BY <1>3
<1>5. PICK r : r = [o EXCEPT !.pc = "open"]
  OBVIOUS
<1>6. /\ r \in Ops /\ r.pc = "open" /\ r.call = o.call /\ r.f = o.f /\ r.arg = o.arg /\ r.slot = o.slot /\ r.old = o.old
      /\ r.pos = o.pos /\ r.done = o.done /\ r.part = o.part /\ r.have = o.have /\ r.data = o.data
  BY <1>5 DEF Ops
<1>7. op' = r
  BY <1>1, <1>4, <1>5
<1>8. /\ op' \in Ops /\ op'.pc = "open" /\ op'.call = op.call /\ op'.f = op.f /\ op'.arg = op.arg /\ op'.slot = op.slot
      /\ op'.old = op.old /\ op'.pos = op.pos /\ op'.done = 0 /\ op'.part = op.part /\ op' # Idle /\ op'.call # "none"
  BY <1>1, <1>3, <1>4, <1>6, <1>7, OpFields
<1>9. Typed'
  BY <1>1, <1>8 DEF Inv, Typed
<1>10. Opening'
  BY <1>8 DEF Opening
<1>11. Shown' = Shown
  BY <1>1, <1>2, <1>8, <1>10 DEF Shown, UsedSlots
<1>12. Arguments'
  <2>1. /\ op.call = "open" => op.arg \in Modes /\ op.old = 0 /\ op.part = 0
        /\ op.call = "read" => op.arg \in 1 .. MaxRead
        /\ op.call = "seek" => op.arg \in 0 .. MaxPos
        /\ op.call # "read" => op.part = 0
    BY <1>3 DEF Inv, Arguments, InOpen, InRead
  <2>2. op'.call = "open" => InOpen'
    BY <1>8, <2>1 DEF InOpen
  <2>3. op'.call = "read" => InRead'
    BY <1>8, <2>1 DEF InRead
  <2>4. QED
    BY <1>3, <1>8, <2>1, <2>2, <2>3 DEF Arguments
<1>13. InCall'
  BY <1>1, <1>2, <1>3, <1>8, <1>10, <1>11 DEF Inv, InCall
<1>14. Buffer'
  BY <1>8, Parameters DEF Buffer, Units
<1>15. ASSUME NEW g \in Files PROVE Sound(g)'
  <2>1. Clean(g)' => Clean(g)
    BY <1>1 DEF Clean
  <2>2. Busy(g)' <=> Busy(g)
    BY <1>3, <1>8 DEF Busy
  <2>3. (Recovering(g)' <=> Recovering(g)) /\ Moved(g)' = Moved(g)
    BY <1>1, <1>3, <1>8, <2>2 DEF Recovering, Moved
  <2>4. QED
    BY <1>1, <1>8, <1>11, <2>1, <2>2, <2>3, SameSound
<1>16. OwnFile' /\ PositionKept'
  BY <1>1, GotKept
<1>17. QED
  BY <1>9, <1>12, <1>13, <1>14, <1>15, <1>16 DEF Inv

LEMMA OpenGivesUp ==
  ASSUME Inv, OpenFails
  PROVE  Inv'
<1>1. /\ op.call # "none" /\ op.pc \in {"stat", "open"} /\ table' = [table EXCEPT ![op.slot] = NoEntry]
      /\ Ends(Unknown) /\ handle' = handle
  BY DEF OpenFails
<1>2. Opening
  BY <1>1 DEF Opening
<1>3. PICK f \in Files, s \in Slots : f = op.f /\ s = op.slot
  BY <1>2, InOpening
<1>4. op \in Ops /\ op # Idle /\ Shown = UsedSlots \ {s} /\ table[s] # NoEntry /\ (op.call = "open" => handle[f] = Closed)
  BY <1>2, <1>3, InOpening
<1>5. op' = Idle /\ got' = Nothing /\ want' = [want EXCEPT ![f] = Unknown]
  BY <1>1, <1>3 DEF Ends
<1>6. /\ table \in [Slots -> Entries \cup {NoEntry}] /\ handle \in [Files -> Ids \cup {Closed}]
      /\ want \in [Files -> Nat \cup {Unknown}] /\ srv \in [Ids -> Handles \cup {NoHandle}]
      /\ expired \in BOOLEAN /\ troubles \in 0 .. MaxTroubles /\ mixed \subseteq Files
  BY DEF Inv, Typed
<1>7. /\ table' \in [Slots -> Entries \cup {NoEntry}] /\ table'[s] = NoEntry
      /\ \A t \in Slots : t # s => table'[t] = table[t]
  BY <1>1, <1>3, <1>6
<1>8. want' \in [Files -> Nat \cup {Unknown}] /\ want'[f] = Unknown /\ \A g \in Files : g # f => want'[g] = want[g]
  BY <1>5, <1>6
<1>9. ~ Opening'
  BY <1>5 DEF Opening, Idle
<1>10. Shown' = Shown
  BY <1>4, <1>7, <1>9 DEF Shown, UsedSlots
<1>11. expired' \in BOOLEAN /\ troubles' \in 0 .. MaxTroubles
  <2>1. expired' = FALSE \/ expired' = expired
    BY DEF OpenFails
  <2>2. troubles' = troubles \/ Trouble("unsent") \/ Trouble("unanswered")
    BY DEF OpenFails
  <2>3. expired' \in BOOLEAN
    BY <1>6, <2>1
  <2>4. troubles' \in 0 .. MaxTroubles
    BY <1>6, <2>2, TroubleCounted
  <2>5. QED
    BY <2>3, <2>4
<1>12. PICK h \in Files : table[s] = NewEntry(h) /\ (op.call = "open" \/ f \notin mixed => h = f)
  BY <1>2, <1>3, InOpening
<1>13. \/ srv' = srv /\ mixed' = mixed
       \/ \E i \in Ids : /\ srv' = [srv EXCEPT ![i] = OpenedFile] /\ srv[i] = NoHandle
                         /\ mixed' = mixed \cup Sharing(i)
  <2>1. CASE FreeIds # {} /\ srv' = [srv EXCEPT ![Min(FreeIds)] = OpenedFile] /\ mixed' = mixed \cup Sharing(Min(FreeIds))
    <3>1. Min(FreeIds) \in FreeIds
      <4>1. FreeIds \subseteq Nat
        BY DEF FreeIds, Ids
      <4>2. QED
        BY <2>1, <4>1, Smallest
    <3>2. Min(FreeIds) \in Ids /\ srv[Min(FreeIds)] = NoHandle
      BY <3>1 DEF FreeIds
    <3>3. QED
      BY <2>1, <3>2
  <2>2. QED
    BY <2>1 DEF OpenFails
<1>14. OpenedFile \in Handles /\ OpenedFile.file = h
  <2>1. PICK m : m = IF op.old = 0 THEN op.arg ELSE "r"
    OBVIOUS
  <2>2. m \in Modes
    <3>1. op.call # "open" => op.old # 0
      BY <1>2, InOpening
    <3>2. op.call = "open" => op.arg \in Modes
      BY <1>2, InOpening
    <3>3. QED
      BY <2>1, <3>1, <3>2 DEF Modes
  <2>3. OpenedFile = [file |-> h, pos |-> 0, mode |-> m]
    BY <1>3, <1>12, <2>1, Records DEF OpenedFile
  <2>4. QED
    BY <2>2, <2>3, Parameters DEF Handles
<1>15. srv' \in [Ids -> Handles \cup {NoHandle}] /\ mixed' \subseteq Files /\ mixed \subseteq mixed'
  BY <1>6, <1>13, <1>14 DEF Sharing
<1>16. Typed'
  BY <1>1, <1>5, <1>6, <1>7, <1>8, <1>11, <1>15 DEF Typed
<1>17. Arguments' /\ Buffer' /\ InCall'
  BY <1>5, <1>9 DEF Arguments, Buffer, InCall
<1>18. \A g \in Files : Clean(g)' => Clean(g)
  BY <1>1, <1>15 DEF Clean
<1>19. ASSUME NEW g \in Files PROVE Sound(g)'
  <2> SUFFICES ASSUME Clean(g)' PROVE Sound(g)'
    BY DEF Sound
  <2>1. Clean(g) /\ handle[g] \in Ids
    BY <1>6, <1>18 DEF Clean
  <2>2. CASE g # f
    <3>1. ~ Busy(g) /\ ~ Busy(g)'
      BY <1>3, <1>5, <2>2 DEF Busy
    <3>2. \A t \in Slots : Sole(t, g) => table'[t] = table[t] /\ t \in Shown'
      BY <1>4, <1>7, <1>10 DEF Sole, Mine
    <3>3. \A t \in Shown' : table'[t].id = handle[g] => t \in Shown /\ table[t].id = handle[g]
      BY <1>4, <1>7, <1>10 DEF UsedSlots
    <3>4. srv'[handle[g]] = srv[handle[g]]
      <4>1. \A i \in Ids : mixed' = mixed \cup Sharing(i) => handle[g] # i
        BY <1>3, <2>2 DEF Sharing, Clean
      <4>2. QED
        BY <1>6, <1>13, <2>1, <4>1
    <3>5. handle' = handle /\ want'[g] = want[g]
      BY <1>1, <1>8, <2>2
    <3>6. QED
      BY <1>18, <3>1, <3>2, <3>3, <3>4, <3>5, OtherSound
  <2>3. CASE g = f
    <3>1. Sound(f) /\ f \notin mixed /\ op.call # "open"
      BY <1>4, <2>1, <2>3 DEF Inv, Clean
    <3>2. PICK t \in Slots : Sole(t, f) /\ OfFile(f, table[t], srv[handle[f]])
      BY <2>1, <2>3, <3>1 DEF Sound
    <3>3. t # s /\ table'[t] = table[t]
      BY <1>4, <1>7, <3>2 DEF Sole, Mine
    <3>4. Alone(f)'
      BY <1>1, <2>1, <2>3, <3>1 DEF Sound, Alone
    <3>5. \A u \in Shown' : table'[u] = table[u]
      BY <1>4, <1>7, <1>10 DEF UsedSlots
    <3>6. Sole(t, f)'
      BY <1>1, <1>10, <3>2, <3>3, <3>5 DEF Sole, Mine
    <3>7. srv'[handle[f]] = srv[handle[f]] \/ srv'[handle[f]] = OpenedFile
      BY <1>6, <1>13, <2>1, <2>3
    <3>8. h = f
      BY <1>12, <3>1
    <3>9. OfFile(f, table[t], srv[handle[f]])'
      BY <1>1, <1>14, <3>2, <3>3, <3>7, <3>8 DEF OfFile
    <3>10. QED
      BY <1>8, <2>3, <3>4, <3>6, <3>9 DEF Sound
  <2>4. QED
    BY <2>2, <2>3
<1>20. QED
  BY <1>5, <1>16, <1>17, <1>19, GotNothing DEF Inv

\* The file is open: the call's handler has a new id, and the entry that was waiting.
LEMMA OpenStep ==
  ASSUME Inv, tnfs_open
  PROVE  Inv'
<1>1. op.call # "none" /\ op.pc = "open" /\ FreeIds # {} /\ expired' = FALSE /\ UNCHANGED troubles
  BY DEF tnfs_open
<1>2. Opening
  BY <1>1 DEF Opening
<1>3. PICK f \in Files, s \in Slots : f = op.f /\ s = op.slot
  BY <1>2, InOpening
<1>4. PICK i \in Ids : i = Min(FreeIds) /\ srv[i] = NoHandle
  <2>1. FreeIds \subseteq Nat
    BY DEF FreeIds, Ids
  <2>2. Min(FreeIds) \in FreeIds
    BY <1>1, <2>1, Smallest
  <2>3. QED
    BY <2>2 DEF FreeIds
<1>5. PICK u : u = op.old
  OBVIOUS
<1>6. /\ op \in Ops /\ op # Idle /\ op.done = 0 /\ Shown = UsedSlots \ {s} /\ table[s] # NoEntry
      /\ op.call \in {"open", "read", "seek"}
      /\ op.call = "open" => u = 0 /\ handle[f] = Closed /\ op.arg \in Modes
      /\ op.call # "open" => u \in Shown /\ u \in Slots /\ u # 0 /\ u # s /\ handle[f] # Closed /\ table[u].id = handle[f]
  BY <1>2, <1>3, <1>5, InOpening, OpFields
<1>7. PICK h \in Files : table[s] = NewEntry(h) /\ (op.call = "open" \/ f \notin mixed => h = f)
  BY <1>2, <1>3, InOpening
<1>8. /\ srv' = [srv EXCEPT ![i] = OpenedFile] /\ Opened(i) /\ handle' = [handle EXCEPT ![f] = i]
      /\ mixed' = IF Shared(i) THEN mixed \cup Sharing(i) \cup {f} ELSE mixed
  BY <1>3, <1>4 DEF tnfs_open
<1>9. /\ table \in [Slots -> Entries \cup {NoEntry}] /\ handle \in [Files -> Ids \cup {Closed}]
      /\ want \in [Files -> Nat \cup {Unknown}] /\ srv \in [Ids -> Handles \cup {NoHandle}]
      /\ expired \in BOOLEAN /\ troubles \in 0 .. MaxTroubles /\ mixed \subseteq Files
  BY DEF Inv, Typed
<1>10. PICK x : x = [NewEntry(h) EXCEPT !.id = i]
  OBVIOUS
<1>11. /\ x \in Entries /\ x.id = i /\ x.file = h /\ x.pos = 0 /\ x.fpos = 0 /\ x.avail = 0 /\ x.from.file = h
       /\ x # NoEntry
  <2>1. PICK n \in Entries : n = NewEntry(h)
    BY Records
  <2>2. n.file = h /\ n.pos = 0 /\ n.fpos = 0 /\ n.avail = 0 /\ n.from.file = h
    BY <2>1, Records
  <2>3. x = [n EXCEPT !.id = i]
    BY <1>10, <2>1
  <2>4. /\ x \in Entries /\ x.id = i /\ x.file = n.file /\ x.pos = n.pos /\ x.fpos = n.fpos /\ x.avail = n.avail
        /\ x.from = n.from
    BY <2>3 DEF Entries
  <2>5. QED
    BY <2>2, <2>4, Records
<1>12. /\ table'[s] = x
       /\ \A t \in Slots : t # s /\ t # u => table'[t] = table[t]
       /\ \A t \in Slots : t # s /\ t = u => table'[t] = NoEntry
       /\ table' \in [Slots -> Entries \cup {NoEntry}]
  <2>1. table' = [t \in Slots |-> IF t = s THEN [table[t] EXCEPT !.id = i] ELSE IF t = u THEN NoEntry ELSE table[t]]
    BY <1>3, <1>5, <1>8 DEF Opened
  <2>2. [table[s] EXCEPT !.id = i] = x
    BY <1>7, <1>10
  <2>3. table' = [t \in Slots |-> IF t = s THEN x ELSE IF t = u THEN NoEntry ELSE table[t]]
    BY <2>1, <2>2
  <2>4. QED
    BY <1>9, <1>11, <2>3
<1>13. PICK o : o = OpenedFile
  OBVIOUS
<1>14. o \in Handles /\ o.file = h /\ o.pos = 0
  <2>1. PICK m : m = IF op.old = 0 THEN op.arg ELSE "r"
    OBVIOUS
  <2>2. m \in Modes
    BY <1>5, <1>6, <2>1 DEF Modes
  <2>3. o = [file |-> h, pos |-> 0, mode |-> m]
    BY <1>3, <1>7, <1>13, <2>1, Records DEF OpenedFile
  <2>4. QED
    BY <2>2, <2>3, Parameters DEF Handles
<1>15. srv' \in [Ids -> Handles \cup {NoHandle}] /\ srv'[i] = o /\ \A j \in Ids : j # i => srv'[j] = srv[j]
  BY <1>8, <1>9, <1>13, <1>14
<1>16. handle' \in [Files -> Ids \cup {Closed}] /\ handle'[f] = i /\ \A g \in Files : g # f => handle'[g] = handle[g]
  BY <1>8, <1>9
<1>17. mixed \subseteq mixed' /\ mixed' \subseteq Files
  BY <1>8, <1>9 DEF Sharing
<1>18. \/ op.call = "open" /\ Ends(0)
       \/ op.call # "open" /\ op' = [op EXCEPT !.pc = "seekback"] /\ UNCHANGED <<got, want>>
  BY <1>5, <1>6 DEF tnfs_open
<1>19. /\ op.call = "open" => op' = Idle /\ got' = Nothing /\ want' = [want EXCEPT ![f] = 0]
       /\ op.call # "open" => /\ op' \in Ops /\ op' # Idle /\ op'.pc = "seekback" /\ op'.call = op.call /\ op'.f = f
                              /\ op'.arg = op.arg /\ op'.pos = op.pos /\ op'.part = op.part /\ op'.done = 0
                              /\ want' = want /\ got' = got
  <2>1. op.call = "open" => op' = Idle /\ got' = Nothing /\ want' = [want EXCEPT ![f] = 0]
    BY <1>3, <1>18 DEF Ends
  <2>2. ASSUME op.call # "open"
        PROVE  /\ op' \in Ops /\ op' # Idle /\ op'.pc = "seekback" /\ op'.call = op.call /\ op'.f = f
               /\ op'.arg = op.arg /\ op'.pos = op.pos /\ op'.part = op.part /\ op'.done = 0
               /\ want' = want /\ got' = got
    <3>1. PICK y \in Ops : y = op
      BY <1>6
    <3>2. PICK r : r = [y EXCEPT !.pc = "seekback"]
      OBVIOUS
    <3>3. /\ r \in Ops /\ r.pc = "seekback" /\ r.call = y.call /\ r.f = y.f /\ r.arg = y.arg /\ r.pos = y.pos
          /\ r.part = y.part /\ r.done = y.done
      BY <3>2 DEF Ops
    <3>4. op' = r /\ want' = want /\ got' = got
      BY <1>18, <2>2, <3>1, <3>2
    <3>5. QED
      BY <1>3, <1>6, <3>1, <3>3, <3>4, OpFields
  <2>3. QED
    BY <2>1, <2>2
<1>20. ~ Opening'
  BY <1>19 DEF Opening, Idle
<1>21. want' \in [Files -> Nat \cup {Unknown}] /\ \A g \in Files : g # f => want'[g] = want[g]
  BY <1>9, <1>19
<1>22. Typed'
  BY <1>1, <1>6, <1>9, <1>12, <1>15, <1>16, <1>17, <1>19, <1>21 DEF Typed
<1>23. Arguments'
  <2>1. CASE op.call = "open"
    BY <1>19, <2>1 DEF Arguments
  <2>2. CASE op.call # "open"
    <3>1. /\ op.call = "read" => op.arg \in 1 .. MaxRead
          /\ op.call = "seek" => op.arg \in 0 .. MaxPos
          /\ op.call # "read" => op.part = 0
      BY <1>6 DEF Inv, Arguments, InRead
    <3>2. op'.call = "read" => InRead'
      BY <1>19, <2>2, <3>1 DEF InRead
    <3>3. QED
      BY <1>6, <1>19, <2>2, <3>1, <3>2 DEF Arguments
  <2>3. QED
    BY <2>1, <2>2
<1>24. InCall'
  BY <1>16, <1>19, <1>20, Records DEF InCall
<1>25. Buffer'
  BY <1>19, Parameters DEF Buffer, Units
<1>26. OwnFile' /\ PositionKept'
  BY <1>17, <1>19, GotNothing, GotKept
<1>27. Shown' = UsedSlots'
  BY <1>20 DEF Shown
<1>28. ASSUME NEW g \in Files, g # f PROVE Sound(g)'
  <2> SUFFICES ASSUME Clean(g)' PROVE Sound(g)'
    BY DEF Sound
  <2>1. Clean(g) /\ handle[g] \in Ids /\ Alone(g)
    BY <1>9, <1>16, <1>17, <1>28 DEF Inv, Sound, Clean
  <2>2. handle[g] # i
    <3>1. handle[g] = i => g \in Sharing(i)
      BY <1>3, <1>28 DEF Sharing
    <3>2. handle[g] = i => g \in mixed'
      BY <1>8, <3>1 DEF Shared
    <3>3. QED
      BY <3>2 DEF Clean
  <2>3. ~ Busy(g) /\ ~ Busy(g)'
    BY <1>3, <1>6, <1>19, <1>28 DEF Busy
  <2>4. u \in Slots => table[u].id # handle[g]
    BY <1>6, <1>28, <2>1, Records DEF Alone
  <2>5. \A t \in Slots : Sole(t, g) => table'[t] = table[t] /\ t \in Shown'
    <3>1. \A t \in Slots : Sole(t, g) => t \in UsedSlots /\ t # s /\ table[t].id = handle[g]
      BY <1>6 DEF Sole, Mine
    <3>2. \A t \in Slots : Sole(t, g) => table'[t] = table[t] /\ table[t] # NoEntry
      BY <1>12, <2>4, <3>1 DEF UsedSlots
    <3>3. QED
      BY <1>27, <3>2 DEF UsedSlots
  <2>6. \A t \in Shown' : table'[t].id = handle[g] => t \in Shown /\ table[t].id = handle[g]
    <3> SUFFICES ASSUME NEW t \in Slots, table'[t] # NoEntry, table'[t].id = handle[g]
                 PROVE  t \in Shown /\ table[t].id = handle[g]
      BY <1>27 DEF UsedSlots
    <3>1. t # s
      BY <1>11, <1>12, <2>2
    <3>2. table'[t] = table[t]
      BY <1>12, <3>1
    <3>3. QED
      BY <1>6, <3>1, <3>2 DEF UsedSlots
  <2>7. \A k \in Files : handle'[k] = handle[g] => handle[k] = handle[g]
    BY <1>16, <2>2
  <2>8. srv'[handle[g]] = srv[handle[g]]
    BY <1>15, <2>1, <2>2
  <2>9. handle'[g] = handle[g] /\ want'[g] = want[g]
    BY <1>16, <1>21, <1>28
  <2>10. QED
    BY <2>1, <2>3, <2>5, <2>6, <2>7, <2>8, <2>9, OtherSound
<1>29. Sound(f)'
  <2> SUFFICES ASSUME Clean(f)' PROVE Sound(f)'
    BY DEF Sound
  <2>1. ~ Shared(i) /\ f \notin mixed
    BY <1>8 DEF Clean
  <2>2. Sharing(i) = {} /\ Holding(i) \ {s, u} = {}
    BY <1>3, <1>5, <2>1 DEF Shared
  <2>3. h = f
    BY <1>7, <2>1
  <2>4. Alone(f)'
    <3> SUFFICES ASSUME NEW g \in Files, handle'[g] = handle'[f], g # f PROVE FALSE
      BY DEF Alone
    <3>1. handle[g] = i
      BY <1>16
    <3>2. g \in Sharing(i)
      BY <1>3, <3>1 DEF Sharing
    <3>3. QED
      BY <2>2, <3>2
  <2>5. Sole(s, f)'
    <3>1. Mine(s, f)'
      BY <1>11, <1>12, <1>16, <1>27, <2>3 DEF Mine, UsedSlots
    <3>2. ASSUME NEW t \in Slots, table'[t] # NoEntry, table'[t].id = i, t # s PROVE FALSE
      <4>1. table'[t] = table[t] /\ t # u
        BY <1>12, <3>2
      <4>2. t \in Holding(i)
        BY <3>2, <4>1 DEF Holding, UsedSlots
      <4>3. QED
        BY <2>2, <3>2, <4>1, <4>2
    <3>3. QED
      BY <1>16, <1>27, <3>1, <3>2 DEF Sole, UsedSlots
  <2>6. OfFile(f, table[s], srv[handle[f]])'
    BY <1>11, <1>12, <1>14, <1>15, <1>16, <2>3 DEF OfFile
  <2>7. ASSUME want'[f] # Unknown PROVE PlacedAt(table[s], f)'
    <3>1. Level(table[s], srv[handle[f]])'
      BY <1>11, <1>12, <1>14, <1>15, <1>16, Records DEF Level
    <3>2. CASE op.call = "open"
      <4>1. ~ Busy(f)' /\ ~ Recovering(f)' /\ Moved(f)' = 0 /\ want'[f] = 0
        BY <1>9, <1>19, <3>2 DEF Busy, Recovering, Moved
      <4>2. Position(table[s], f)'
        BY <1>11, <1>12, <4>1 DEF Position
      <4>3. QED
        BY <3>1, <4>1, <4>2 DEF PlacedAt
    <3>3. CASE op.call # "open"
      <4>1. Clean(f) /\ want[f] # Unknown
        BY <1>6, <1>19, <2>1, <2>7, <3>3 DEF Clean
      <4>2. PICK t \in Slots : PlacedAt(table[t], f)
        BY <4>1 DEF Inv, Sound
      <4>3. Recovering(f)
        BY <1>1, <1>3, <1>6 DEF Recovering, Busy
      <4>4. op.pos = want[f] + op.part
        BY <4>2, <4>3 DEF PlacedAt, Position
      <4>5. Recovering(f)' /\ op'.pc # "fill"
        BY <1>19, <3>3 DEF Recovering, Busy
      <4>6. Position(table[s], f)'
        BY <1>19, <3>3, <4>4, <4>5 DEF Position
      <4>7. QED
        BY <3>1, <4>5, <4>6 DEF PlacedAt
    <3>4. QED
      BY <3>2, <3>3
  <2>8. QED
    BY <2>4, <2>5, <2>6, <2>7 DEF Sound
<1>30. QED
  BY <1>22, <1>23, <1>24, <1>25, <1>26, <1>28, <1>29 DEF Inv

\* A recovery begins: a second entry for the file, not searched for yet.
LEMMA RecoveryStep ==
  ASSUME Inv, _bad_fd_recovery
  PROVE  Inv'
<1>1. OnEntry
  BY Kinds DEF Inv, _bad_fd_recovery, OnEntry, Idle
<1>2. /\ op \in Ops /\ op # Idle /\ ~ Opening /\ op.call \in {"read", "seek"} /\ op.pc \in {"fd", "fill"} /\ ~ op.again
      /\ Slot # 0 /\ Slot \in Slots /\ table[Slot] \in Entries /\ table[Slot].id = Id /\ FreeSlots # {}
      /\ handle[op.f] = Id /\ handle[op.f] # Closed /\ Slot \in UsedSlots
  <2>1. Slot \in UsedSlots
    BY Found DEF Inv, _bad_fd_recovery, Slot
  <2>2. QED
    BY <1>1, <2>1, InHandleCall DEF _bad_fd_recovery, OnEntry
<1>3. op.part = 0
  BY <1>2 DEF Inv, Arguments
<1>4. PICK f \in Files, s \in Slots, e \in Entries, o \in Ops : f = op.f /\ s = Slot /\ e = table[Slot] /\ o = op
  BY <1>2, OpFields
<1>5. PICK u \in Slots : u = Min(FreeSlots) /\ table[u] = NoEntry /\ u \notin UsedSlots
  BY <1>2, FreeSlot
<1>6. PICK x, y : x = Dropped(e) /\ y = NewEntry(e.file)
  OBVIOUS
<1>7. /\ x \in Entries /\ x.id = e.id /\ x.file = e.file /\ x.pos = e.pos
      /\ x.fpos = e.fpos /\ x.avail = 0 /\ x.from.file = e.file /\ x # NoEntry
      /\ y \in Entries /\ y # NoEntry /\ e.file \in Files
  BY <1>6, DroppedEntry, Records
<1>8. /\ table' = [table EXCEPT ![s] = x, ![u] = y]
      /\ op' = [o EXCEPT !.pc = "stat", !.slot = u, !.old = s, !.pos = e.pos, !.part = o.done, !.done = 0]
      /\ expired' = FALSE /\ UNCHANGED <<handle, got, want, srv, troubles, mixed>>
  BY <1>4, <1>5, <1>6 DEF _bad_fd_recovery
<1>9. s # u /\ table \in [Slots -> Entries \cup {NoEntry}]
  BY <1>2, <1>4, <1>5 DEF Inv, Typed
<1>10. /\ table' \in [Slots -> Entries \cup {NoEntry}] /\ table'[s] = x /\ table'[u] = y
       /\ \A t \in Slots : t # s /\ t # u => table'[t] = table[t]
  BY <1>7, <1>8, <1>9
<1>11. /\ op' \in Ops /\ op'.call = op.call /\ op'.f = f /\ op'.arg = op.arg /\ op'.pc = "stat" /\ op'.slot = u
       /\ op'.old = s /\ op'.pos = e.pos /\ op'.part = op.done /\ op'.done = 0
  <2>1. PICK r, p, d : p = e.pos /\ d = o.done /\ r = [o EXCEPT !.pc = "stat", !.slot = u, !.old = s, !.pos = p, !.part = d, !.done = 0]
    OBVIOUS
  <2>2. p \in 0 .. MaxPos /\ d \in Nat /\ u \in 0 .. MaxHandles /\ s \in 0 .. MaxHandles
    BY <2>1, Records, OpFields, Parameters DEF Slots
  <2>3. /\ r \in Ops /\ r.call = o.call /\ r.f = o.f /\ r.arg = o.arg /\ r.pc = "stat" /\ r.slot = u
        /\ r.old = s /\ r.pos = p /\ r.part = d /\ r.done = 0
    BY <2>1, <2>2 DEF Ops
  <2>4. op' = r
    BY <1>8, <2>1
  <2>5. QED
    BY <1>4, <2>1, <2>3, <2>4
<1>12. Typed'
  BY <1>8, <1>10, <1>11 DEF Inv, Typed
<1>13. Opening' /\ op' # Idle
  BY <1>2, <1>11, OpFields DEF Opening
<1>14. Shown' = Shown /\ Shown = UsedSlots /\ u \notin Shown
  BY <1>2, <1>4, <1>5, <1>7, <1>10, <1>11, <1>13, Records DEF Shown, UsedSlots
<1>15. Arguments'
  <2>1. /\ op.call = "read" => op.arg \in 1 .. MaxRead
        /\ op.call = "seek" => op.arg \in 0 .. MaxPos
        /\ op.call # "read" => op.done = 0
    BY <1>2 DEF Inv, Arguments, InRead
  <2>2. op'.call = "read" => InRead'
    BY <1>11, <2>1 DEF InRead
  <2>3. QED
    BY <1>2, <1>11, <2>1, <2>2 DEF Arguments
<1>16. InCall'
  <2>1. f \notin mixed => e.file = f
    <3>1. f \notin mixed => Clean(op.f)
      BY <1>2, <1>4 DEF Clean
    <3>2. QED
      BY <1>1, <1>4, <3>1, OwnFiles
  <2>2. op'.old \in Shown' /\ table'[op'.old].id = handle'[op'.f] /\ handle'[op'.f] # Closed
    BY <1>2, <1>4, <1>7, <1>8, <1>10, <1>11, <1>14
  <2>3. op'.slot \in Slots /\ \E h \in Files : table'[op'.slot] = NewEntry(h) /\ (op'.call = "open" \/ op'.f \notin mixed' => h = op'.f)
    BY <1>2, <1>6, <1>7, <1>8, <1>10, <1>11, <2>1
  <2>4. QED
    BY <1>2, <1>11, <2>2, <2>3 DEF InCall
<1>17. Buffer'
  BY <1>11, Parameters DEF Buffer, Units
<1>18. \A g \in Files : Clean(g)' => Clean(g)
  BY <1>8 DEF Clean
<1>19. \A t \in Shown : table'[t].id = table[t].id /\ (t # s => table'[t] = table[t])
  BY <1>4, <1>7, <1>10, <1>14 DEF UsedSlots
<1>20. ASSUME NEW g \in Files, g # f PROVE Sound(g)'
  <2>1. ~ Busy(g) /\ ~ Busy(g)'
    BY <1>4, <1>11, <1>20 DEF Busy
  <2>2. Clean(g) => table[s].id # handle[g]
    BY <1>2, <1>4, <1>20 DEF Inv, Sound, Alone
  <2>3. Clean(g) => \A t \in Slots : Sole(t, g) => table'[t] = table[t] /\ t \in Shown'
    BY <1>14, <1>19, <2>2 DEF Sole, Mine
  <2>4. \A t \in Shown' : table'[t].id = handle[g] => t \in Shown /\ table[t].id = handle[g]
    BY <1>14, <1>19
  <2>5. handle' = handle /\ want' = want /\ srv' = srv
    BY <1>8
  <2>6. QED
    BY <1>18, <2>1, <2>3, <2>4, <2>5, OtherSound
<1>21. Sound(f)'
  <2> SUFFICES ASSUME Clean(f)' PROVE Sound(f)'
    BY DEF Sound
  <2>1. Clean(f)
    BY <1>18
  <2>2. Sole(s, f) /\ Alone(f) /\ OfFile(f, e, srv[Id]) /\ e.file = f
    BY <1>1, <1>2, <1>4, <2>1, OwnEntry DEF Sole, Mine
  <2>3. Alone(f)'
    BY <1>8, <2>2 DEF Alone
  <2>4. Sole(s, f)'
    BY <1>7, <1>8, <1>10, <1>14, <1>19, <2>2 DEF Sole, Mine
  <2>5. handle'[f] = Id /\ srv' = srv /\ want' = want
    BY <1>2, <1>4, <1>8
  <2>6. OfFile(f, table[s], srv[handle[f]])'
    BY <1>7, <1>10, <2>2, <2>5 DEF OfFile
  <2>7. ASSUME want'[f] # Unknown PROVE PlacedAt(table[s], f)'
    <3>1. Level(e, srv[Id]) /\ e.pos = want[f] + op.part + op.done
      BY <1>1, <1>2, <1>4, <2>1, <2>5, <2>7, CallPlaced
    <3>2. Level(table[s], srv[handle[f]])'
      BY <1>7, <1>10, <2>5, <3>1 DEF Level
    <3>3. Recovering(f)' /\ op'.pc # "fill"
      BY <1>11, <1>13 DEF Recovering, Busy
    <3>4. op'.pos = want'[f] + op'.part
      <4>1. PICK w, d, p : w = want[f] /\ d = op.done /\ p = e.pos
        OBVIOUS
      <4>2. w \in Nat /\ d \in Nat
        BY <1>2, <2>5, <2>7, <4>1, OpFields DEF Inv, Typed
      <4>3. p = w + 0 + d
        BY <1>3, <3>1, <4>1
      <4>4. p = w + d
        BY <4>2, <4>3
      <4>5. QED
        BY <1>11, <2>5, <4>1, <4>4
    <3>5. Position(table[s], f)'
      BY <3>3, <3>4 DEF Position
    <3>6. QED
      BY <3>2, <3>3, <3>5 DEF PlacedAt
  <2>8. QED
    BY <2>3, <2>4, <2>6, <2>7 DEF Sound
<1>22. OwnFile' /\ PositionKept'
  BY <1>8, GotKept
<1>23. QED
  BY <1>12, <1>15, <1>16, <1>17, <1>20, <1>21, <1>22 DEF Inv

-----------------------------------------------------------------------------
LEMMA InitHolds ==
  ASSUME Init
  PROVE  Inv
<1>1. /\ table = [s \in Slots |-> NoEntry] /\ handle = [f \in Files |-> Closed] /\ op = Idle /\ got = Nothing
      /\ want = [f \in Files |-> Unknown] /\ srv = [i \in Ids |-> NoHandle] /\ expired = FALSE /\ troubles = 0 /\ mixed = {}
  BY DEF Init
<1>2. Typed
  <2>1. table \in [Slots -> Entries \cup {NoEntry}] /\ handle \in [Files -> Ids \cup {Closed}]
    BY <1>1, Zenon
  <2>2. want \in [Files -> Nat \cup {Unknown}] /\ srv \in [Ids -> Handles \cup {NoHandle}]
    BY <1>1, Zenon
  <2>3. troubles \in 0 .. MaxTroubles
    BY <1>1, Parameters
  <2>4. expired \in BOOLEAN /\ mixed \subseteq Files /\ op \in Ops \cup {Idle}
    BY <1>1, Zenon
  <2>5. QED
    BY <2>1, <2>2, <2>3, <2>4 DEF Typed
<1>3. ~ Opening
  BY <1>1 DEF Opening, Idle
<1>4. Arguments /\ InCall /\ Buffer
  BY <1>1, <1>3 DEF Arguments, InCall, Buffer
<1>5. \A f \in Files : Sound(f)
  BY <1>1 DEF Sound, Clean
<1>6. OwnFile /\ PositionKept
  BY <1>1 DEF OwnFile, PositionKept, Succeeded
<1>7. QED
  BY <1>2, <1>4, <1>5, <1>6 DEF Inv

LEMMA StutterKeepsInv ==
  ASSUME Inv, UNCHANGED vars
  PROVE  Inv'
<1>1. /\ table' = table /\ handle' = handle /\ op' = op /\ got' = got /\ want' = want /\ srv' = srv
      /\ expired' = expired /\ troubles' = troubles /\ mixed' = mixed
  BY DEF vars
<1>2. Typed' /\ Arguments'
  BY <1>1 DEF Inv, Typed, Arguments, InOpen, InRead
<1>3. Opening' <=> Opening
  BY <1>1 DEF Opening
<1>4. Shown' = Shown
  BY <1>1, <1>3 DEF Shown, UsedSlots
<1>5. InCall'
  BY <1>1, <1>3, <1>4 DEF Inv, InCall
<1>6. Buffer'
  BY <1>1 DEF Inv, Buffer, Clean
<1>7. ASSUME NEW g \in Files PROVE Sound(g)'
  <2>1. (Clean(g)' => Clean(g)) /\ (Busy(g)' <=> Busy(g))
    BY <1>1 DEF Clean, Busy
  <2>2. (Recovering(g)' <=> Recovering(g)) /\ Moved(g)' = Moved(g)
    BY <1>1, <2>1 DEF Recovering, Moved
  <2>3. QED
    BY <1>1, <1>4, <2>1, <2>2, SameSound
<1>8. OwnFile' /\ PositionKept'
  BY <1>1, GotKept
<1>9. QED
  BY <1>2, <1>5, <1>6, <1>7, <1>8 DEF Inv

LEMMA StepKeepsInv ==
  ASSUME Inv, [Next]_vars
  PROVE  Inv'
<1>1. ASSUME NEW f \in Files, NEW mode \in OpenModes, filehandler_open(f, mode) PROVE Inv'
  BY <1>1, OpenStarts, HandlesAssumption DEF Modes
<1>2. ASSUME NEW f \in Files, NEW n \in 1 .. MaxRead, StartCall("read", f, n) PROVE Inv'
  <2>1. n \in Nat
    BY Parameters
  <2>2. QED
    BY <1>2, <2>1, StartStep
<1>3. ASSUME NEW f \in Files, NEW call \in {"write", "close"}, StartCall(call, f, 1) PROVE Inv'
  BY <1>3, StartStep
<1>4. ASSUME NEW f \in Files, NEW p \in 0 .. MaxPos, StartCall("seek", f, p) PROVE Inv'
  <2>1. p \in Nat
    BY Parameters
  <2>2. QED
    BY <1>4, <2>1, StartStep
<1>5. CASE UNCHANGED vars
  BY <1>5, StutterKeepsInv
<1>6. QED
  BY <1>1, <1>2, <1>3, <1>4, <1>5, StatStep, OpenStep, OpenGivesUp, CacheStep, FillStep, WriteSeekStep, WriteStep,
     CacheSeekStep, SeekStep, RecoveryStep, FailStep, CloseStep, ExpiryStep DEF Next

LEMMA InvHolds == Spec => []Inv
<1>1. Init => Inv
  BY InitHolds
<1>2. Inv /\ [Next]_vars => Inv'
  BY StepKeepsInv
<1>3. QED
  BY <1>1, <1>2, PTL DEF Spec

-----------------------------------------------------------------------------
\* The state is well typed; positions stay within the files, and an open in progress
\* owns the slot it took (tnfs_open, tnfslibMountInfo.cpp new_filehandleinfo).
THEOREM HandlesTyped == Spec => []TypeOK
<1>1. Inv => TypeOK
  <2> SUFFICES ASSUME Inv PROVE TypeOK
    OBVIOUS
  <2>1. Typed
    BY DEF Inv
  <2>2. \A i \in Ids : srv[i] # NoHandle => srv[i].file \in Files /\ srv[i].pos \in 0 .. MaxPos
    BY <2>1, Records DEF Typed
  <2>3. Opening => table[op.slot] # NoEntry
    BY InOpening
  <2>4. QED
    BY <2>1, <2>2, <2>3 DEF Typed, TypeOK
<1>2. QED
  BY <1>1, InvHolds, PTL

\* Whenever the table is searched, every open handler finds its own entry under its
\* id (get_filehandleinfo), but for those that came to share an id because a server
\* gave one that the table still had from a lost session; for every number of files,
\* slots and ids, whatever the server gives out again.
THEOREM HandlesResolve == Spec => []HandleResolves
<1>1. Inv => HandleResolves
  <2> SUFFICES ASSUME Inv, ~ Opening, NEW f \in Files \ mixed, handle[f] # Closed
               PROVE  get_filehandleinfo(handle[f]) # 0 /\ table[get_filehandleinfo(handle[f])].file = f
    BY DEF HandleResolves
  <2>1. Clean(f) /\ Sound(f) /\ Typed
    BY DEF Inv, Clean
  <2>2. PICK s \in Slots : Sole(s, f)
    BY <2>1 DEF Sound
  <2>3. get_filehandleinfo(handle[f]) = s
    BY <2>1, <2>2, SoleFound
  <2>4. QED
    BY <2>2, <2>3, Records DEF Sole, Mine
<1>2. QED
  BY <1>1, InvHolds, PTL

\* Every unit that a read or write transfers is of the handler's file, whether the
\* server or the read-ahead cache had it, with the same exception.
THEOREM TransfersOnOwnFile == Spec => []OwnFile
<1>1. Inv => OwnFile
  BY DEF Inv
<1>2. QED
  BY <1>1, InvHolds, PTL

\* ... and at the position its user counts on, also when the file was reopened in the
\* middle of the call (_bad_fd_recovery); a read that had taken a part from the cache
\* before the session was found lost skips exactly that part.
THEOREM RecoveryKeepsPosition == Spec => []PositionKept
<1>1. Inv => PositionKept
  BY DEF Inv
<1>2. QED
  BY <1>1, InvHolds, PTL
=============================================================================
