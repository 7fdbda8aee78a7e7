------------------------ MODULE CloseLifecycleProofs ------------------------
(***************************************************************************)
(* Proofs about CloseLifecycle, for any set of closers and listeners.  One *)
(* inductive invariant, CloseInv, carries them: where the closers can be   *)
(* (Located), who can still tell a listener (Places), how far the teardown *)
(* is at each point of _cleanup, and who is about to go on with it (Torn), *)
(* and who has still to take the reader off the loop (Bound).              *)
(***************************************************************************)
EXTENDS CloseLifecycle, TLAPS

(* A closer is in a part of the work of its point, and the loop is in a    *)
(* closer of its own that is not at an await.                              *)
PartsAt(point) ==
  IF point \in Closing THEN {"take", "forget", "remove", "shut"}
  ELSE IF point \in Unreading THEN {"forget", "remove", "unhook"} ELSE {"none"}

Located ==
  \A p \in Closers :
    part[p] \in PartsAt(pc[p]) /\ (p \in OnLoop /\ pc[p] \notin OffLoop => loop = p)

(* A listener is in one place at most from which it can be told, and in    *)
(* none once it has been told.                                             *)
Places ==
  /\ \A l \in Listeners : notified[l] = 1 => l \notin listed
  /\ \A l \in Listeners, p \in Closers : notified[l] = 1 => l \notin taken[p]
  /\ \A l \in Listeners, p \in Closers : l \in taken[p] => l \notin listed
  /\ \A l \in Listeners, p, q \in Closers :
       l \in taken[p] /\ l \in taken[q] => p = q

(* What a closer inside _cleanup can rely on, also when others are there,  *)
(* and which of them has the next thing to do.                             *)
Torn ==
  /\ ~root => closed /\ ~open
  /\ ~root /\ handlers => \E p \in Closers : pc[p] = "handlers"
  /\ ~handlers /\ rest => \E p \in Closers : pc[p] = "release"
  /\ \A p \in Closers :
       /\ pc[p] = "channel" => closed
       /\ pc[p] \in {"disconnect", "clear"} => closed /\ ~open
       /\ pc[p] \in {"handlers", "release", "fire", "notify"} => ~root

(* Whoever clears _registered_fd has the reader to remove; whoever takes   *)
(* the hook has _registered_fd to look at; and who has done so, or is past *)
(* the hook in the close of the stream, knows that of it.                  *)
Removing == \E p \in Closers : part[p] = "remove"
Forgetting == \E p \in Closers : part[p] = "forget"

Past(p) == part[p] = "shut" \/ (pc[p] \in Closing /\ part[p] \in {"forget", "remove"})

Forgotten(p) == part[p] \in {"remove", "unhook"} => ~registered
HookTaken(p) == Past(p) => ~hooked

Bound ==
  /\ reader => registered \/ Removing
  /\ registered /\ ~hooked => Forgetting
  /\ ~open => ~hooked
  /\ \A p \in Closers : Forgotten(p) /\ HookTaken(p)

CloseInv == TypeOK /\ Located /\ Places /\ Torn /\ Bound

-----------------------------------------------------------------------------
(* How closers move.                                                       *)

LEMMA PointsKnown ==
  /\ Closing \cup Unreading \cup OffLoop \subseteq Points
  /\ Closing \cap Unreading = {} /\ (Closing \cup Unreading) \cap OffLoop = {}
  /\ \A x \in Points : FirstPart(x) \in PartsAt(x) /\ FirstPart(x) \in Parts
  /\ \A x \in Points : FirstPart(x) \in {"forget", "remove"} => x \notin Closing
  /\ \A x \in Points : FirstPart(x) \notin {"remove", "unhook", "shut"}
BY DEF Points, Closing, Unreading, OffLoop, FirstPart, PartsAt, Parts

(* One closer goes to another point: the others stay where they are.       *)
LEMMA Moves ==
  ASSUME TypeOK, Located, NEW p \in Closers, Runs(p), NEW to \in Points, Go(p, to)
  PROVE  /\ pc' \in [Closers -> Points] /\ part' \in [Closers -> Parts]
         /\ pc'[p] = to /\ part'[p] = FirstPart(to)
         /\ \A q \in Closers : q # p => pc'[q] = pc[q] /\ part'[q] = part[q]
         /\ loop' \in OnLoop \cup {Nobody}
         /\ Located'
<1>1. /\ pc' = [pc EXCEPT ![p] = to] /\ part' = [part EXCEPT ![p] = FirstPart(to)]
      /\ loop' = IF p \notin OnLoop THEN loop ELSE IF to \in OffLoop THEN Nobody ELSE p
  BY DEF Go
<1>2. pc \in [Closers -> Points] /\ part \in [Closers -> Parts] /\ loop \in OnLoop \cup {Nobody}
  BY DEF TypeOK
<1>3. FirstPart(to) \in PartsAt(to) /\ FirstPart(to) \in Parts
  BY PointsKnown
<1>4. /\ pc' \in [Closers -> Points] /\ part' \in [Closers -> Parts]
      /\ pc'[p] = to /\ part'[p] = FirstPart(to)
      /\ \A q \in Closers : q # p => pc'[q] = pc[q] /\ part'[q] = part[q]
  BY <1>1, <1>2, <1>3
<1>5. loop' \in OnLoop \cup {Nobody}
  BY <1>1, <1>2
<1>6. Located'
  <2>. SUFFICES ASSUME NEW q \in Closers
                PROVE  /\ part'[q] \in PartsAt(pc'[q])
                       /\ q \in OnLoop /\ pc'[q] \notin OffLoop => loop' = q
    BY DEF Located, OnLoop
  <2>1. CASE q = p
    BY <1>1, <1>3, <1>4, <2>1
  <2>2. CASE q # p
    <3>1. part'[q] \in PartsAt(pc'[q])
      BY <1>4, <2>2 DEF Located
    <3>2. ASSUME q \in OnLoop, pc'[q] \notin OffLoop PROVE loop' = q
      <4>1. loop = q
        BY <1>4, <2>2, <3>2 DEF Located
      <4>2. p \notin OnLoop
        BY <4>1, <2>2, CloseAssumption DEF Runs
      <4>. QED
        BY <1>1, <4>1, <4>2
    <3>. QED
      BY <3>1, <3>2
  <2>. QED
    BY <2>1, <2>2
<1>. QED
  BY <1>4, <1>5, <1>6

(* Leaving a _cleanup leads to its second run or out of the closer.        *)
LEMMA Leaves ==
  ASSUME TypeOK, NEW p \in Closers, NEW to \in Points, Leave(p, to)
  PROVE  /\ again' \in [Closers -> BOOLEAN]
         /\ Go(p, "enter") \/ Go(p, to)
  BY DEF TypeOK, Leave, Step

(* A closer that had no part of the stream's work leaves that to others.   *)
LEMMA Elsewhere ==
  ASSUME TypeOK, Located, Bound, NEW p \in Closers, pc[p] \notin Closing \cup Unreading,
         Runs(p), NEW to \in Points, Go(p, to), UNCHANGED streamVars
  PROVE  Bound'
<1>1. /\ pc'[p] = to /\ part'[p] = FirstPart(to)
      /\ \A q \in Closers : q # p => pc'[q] = pc[q] /\ part'[q] = part[q]
  BY Moves
<1>2. part[p] = "none"
  BY DEF Located, PartsAt
<1>3. \A q \in Closers : part[q] \in {"forget", "remove"} => part'[q] = part[q]
  BY <1>1, <1>2
<1>4. UNCHANGED <<registered, reader, hooked, open>>
  BY DEF streamVars
<1>5. (Removing => Removing') /\ (Forgetting => Forgetting')
  BY <1>3 DEF Removing, Forgetting
<1>6. ASSUME NEW q \in Closers PROVE Forgotten(q)' /\ HookTaken(q)'
  <2>1. Forgotten(q) /\ HookTaken(q)
    BY DEF Bound
  <2>2. CASE q = p
    BY <1>1, <2>2, PointsKnown DEF Forgotten, HookTaken, Past
  <2>3. CASE q # p
    BY <1>1, <1>4, <2>1, <2>3 DEF Forgotten, HookTaken, Past
  <2>. QED
    BY <2>2, <2>3
<1>. QED
  BY <1>4, <1>5, <1>6 DEF Bound

LEMMA InitInv == Init => CloseInv
<1> SUFFICES ASSUME Init PROVE CloseInv
  OBVIOUS
<1>1. "idle" \in Points /\ "none" \in Parts
  BY DEF Points, OffLoop, Parts
<1>2. TypeOK
  <2>1. /\ pc \in [Closers -> Points] /\ part \in [Closers -> Parts]
        /\ loop \in OnLoop \cup {Nobody}
        /\ leavers \subseteq Closers /\ listed \subseteq Listeners /\ gone \subseteq Waiters
        /\ taken \in [Closers -> SUBSET Listeners]
        /\ notified \in [Listeners -> 0..1]
    BY <1>1 DEF Init
  <2>2. /\ again \in [Closers -> BOOLEAN] /\ closed \in BOOLEAN /\ root \in BOOLEAN
        /\ handlers \in BOOLEAN /\ rest \in BOOLEAN /\ registered \in BOOLEAN
        /\ reader \in BOOLEAN /\ hooked \in BOOLEAN /\ open \in BOOLEAN /\ up \in BOOLEAN
    BY DEF Init
  <2> QED
    BY <2>1, <2>2 DEF TypeOK
<1>3. Located
  BY DEF Init, Located, PartsAt, Closing, Unreading, OffLoop
<1>4. Places /\ Torn /\ Bound
  BY DEF Init, Places, Torn, Bound, Removing, Forgetting, Forgotten, HookTaken, Past
<1> QED
  BY <1>2, <1>3, <1>4 DEF CloseInv

-----------------------------------------------------------------------------
(* Calls, and the steps before _cleanup: they touch neither the lists, nor *)
(* the stream, nor what the teardown takes down.                           *)
LEMMA Early ==
  ASSUME CloseInv, NEW p \in Closers,
         Call(p) \/ MarkDead(p) \/ Check(p) \/ Mark(p) \/ Request(p) \/ SendClose(p) \/ Cancel(p)
  PROVE  CloseInv'
<1>. DEFINE From == {"idle", "mark_dead", "check", "mark", "sleep", "request", "drain"}
            To   == {"check", "done", "drain", "enter", "guard", "unread", "recv", "write",
                     "mark_dead", "mark", "disable", "dead_request", "sleep", "send", "raised"}
<1>1. PICK to \in To : Go(p, to)
  BY DEF Call, MarkDead, Check, Mark, Request, SendClose, Cancel, Step
<1>2. pc[p] \in From /\ Runs(p)
  BY DEF Call, MarkDead, Check, Mark, Request, SendClose, Cancel, At
<1>3. to \in Points /\ pc[p] \notin Closing \cup Unreading
  BY <1>2 DEF Points, OffLoop, Closing, Unreading
<1>4. again' \in [Closers -> BOOLEAN]
  BY DEF CloseInv, TypeOK, Call, MarkDead, Check, Mark, Request, SendClose, Cancel, Step
<1>5. /\ UNCHANGED <<root, handlers, rest, leavers, streamVars, up, noteVars>>
      /\ closed' \in BOOLEAN
      /\ closed => closed'
  BY DEF CloseInv, TypeOK, connVars, Call, MarkDead, Check, Mark, Request, SendClose, Cancel
<1>6. /\ pc' \in [Closers -> Points] /\ part' \in [Closers -> Parts]
      /\ pc'[p] = to /\ \A q \in Closers : q # p => pc'[q] = pc[q]
      /\ loop' \in OnLoop \cup {Nobody} /\ Located'
  BY <1>1, <1>2, <1>3, Moves DEF CloseInv
<1>7. TypeOK'
  BY <1>4, <1>5, <1>6 DEF CloseInv, TypeOK, streamVars, noteVars
<1>8. Places'
  BY <1>5 DEF CloseInv, Places, noteVars
<1>9. Torn'
  BY <1>2, <1>5, <1>6 DEF CloseInv, Torn, streamVars
<1>10. Bound'
  BY <1>1, <1>2, <1>3, <1>5, Elsewhere DEF CloseInv
<1> QED
  BY <1>6, <1>7, <1>8, <1>9, <1>10 DEF CloseInv

-----------------------------------------------------------------------------
(* The reader and the stream, part by part.                                *)

(* A closer goes on to its next part, or to the point behind: what it has  *)
(* to know of the stream there, the steps below have to show.              *)
LEMMA PartGoesOn ==
  ASSUME CloseInv, NEW p \in Closers, Runs(p), part[p] # "none",
         NEW st \in Parts,
         \/ Continue(p, st) /\ st \in PartsAt(pc[p])
         \/ Step(p, Behind(p)) /\ (pc[p] \in Closing => ~open'),
         open' => open, open' \in BOOLEAN,
         registered' \in BOOLEAN, reader' \in BOOLEAN, hooked' \in BOOLEAN,
         UNCHANGED <<connVars, up, noteVars>>
  PROVE  /\ TypeOK' /\ Located' /\ Places' /\ Torn'
         /\ \A q \in Closers : q # p => pc'[q] = pc[q] /\ part'[q] = part[q]
         /\ \/ pc'[p] = pc[p] /\ part'[p] = st
            \/ /\ part'[p] \notin {"remove", "shut"}
               /\ part'[p] = "forget" => pc'[p] \notin Closing
<1>1. TypeOK /\ Located /\ Places /\ Torn /\ p \in DOMAIN pc /\ p \in DOMAIN part
  BY DEF CloseInv, TypeOK
<1>2. pc[p] \in Closing \cup Unreading
  BY <1>1 DEF Located, PartsAt
<1>3. CASE Continue(p, st) /\ st \in PartsAt(pc[p])
  <2>1. /\ part' = [part EXCEPT ![p] = st] /\ UNCHANGED <<pc, loop, again>>
        /\ part'[p] = st /\ \A q \in Closers : q # p => part'[q] = part[q]
    BY <1>1, <1>3 DEF Continue
  <2>2. TypeOK'
    BY <1>1, <2>1 DEF TypeOK, connVars, noteVars
  <2>3. Located'
    BY <1>1, <1>3, <2>1 DEF Located
  <2>4. Places' /\ Torn'
    BY <1>1, <2>1 DEF Places, Torn, connVars, noteVars
  <2>. QED
    BY <2>1, <2>2, <2>3, <2>4
<1>4. CASE Step(p, Behind(p)) /\ (pc[p] \in Closing => ~open')
  <2>. DEFINE to == Behind(p)
  <2>1. /\ to \in {"idle", "unread", "check", "enter", "request", "sleep", "raised",
                   "mark_dead", "done", "disconnect"}
        /\ to = "disconnect" => pc[p] = "channel"
    BY <1>2 DEF Behind, Closing, Unreading
  <2>2. to \in Points
    BY <2>1 DEF Points, OffLoop, Unreading
  <2>3. Go(p, to) /\ again' = again
    BY <1>4 DEF Step
  <2>4. /\ pc' \in [Closers -> Points] /\ part' \in [Closers -> Parts]
        /\ pc'[p] = to /\ part'[p] = FirstPart(to)
        /\ \A q \in Closers : q # p => pc'[q] = pc[q] /\ part'[q] = part[q]
        /\ loop' \in OnLoop \cup {Nobody}
        /\ Located'
    BY <1>1, <2>2, <2>3, Moves
  <2>5. TypeOK'
    BY <1>1, <2>3, <2>4 DEF TypeOK, connVars, noteVars
  <2>6. Torn'
    <3>1. "channel" \in Closing /\ pc[p] \notin {"handlers", "release"}
      BY <1>2 DEF Closing, Unreading
    <3>2. UNCHANGED <<closed, root, handlers, rest>>
      BY DEF connVars
    <3>. QED
      BY <1>1, <1>4, <2>1, <2>4, <3>1, <3>2 DEF Torn
  <2>7. Places'
    BY <1>1 DEF Places, noteVars
  <2>8. part'[p] \notin {"remove", "shut"} /\ (part'[p] = "forget" => pc'[p] \notin Closing)
    BY <2>2, <2>4, PointsKnown
  <2>. QED
    BY <2>4, <2>5, <2>6, <2>7, <2>8
<1>. QED
  BY <1>3, <1>4

(* The step behind _unregister_reader.                                     *)
LEMMA UnregisteredGoesOn ==
  ASSUME CloseInv, NEW p \in Closers, part[p] \in {"forget", "remove"}, Unregistered(p)
  PROVE  \/ Continue(p, "shut") /\ pc[p] \in Closing
         \/ Continue(p, "unhook") /\ pc[p] \in Unreading
         \/ Step(p, Behind(p)) /\ pc[p] \notin Closing
  BY DEF Unregistered, Unreading

LEMMA Streams ==
  ASSUME CloseInv, NEW p \in Closers, Streaming(p)
  PROVE  CloseInv'
<1>1. /\ part[p] # "none" /\ Runs(p)
      /\ registered \in BOOLEAN /\ reader \in BOOLEAN /\ hooked \in BOOLEAN /\ open \in BOOLEAN
      /\ part[p] \in PartsAt(pc[p]) /\ Bound
      /\ \A q \in Closers : Forgotten(q) /\ HookTaken(q)
  BY DEF Streaming, TakeHook, Forget, RemoveReader, Unhook, Shut, Within, CloseInv, TypeOK,
         Located, Bound
<1>2. CASE TakeHook(p)
  <2>1. PICK st \in {"forget", "shut"} : Continue(p, st) /\ (st = "shut" => ~hooked)
    BY <1>2 DEF TakeHook, Taken
  <2>2. /\ UNCHANGED <<connVars, registered, reader, open, up, noteVars>> /\ hooked' = FALSE
        /\ part[p] = "take" /\ pc[p] \in Closing
    BY <1>1, <1>2 DEF TakeHook, Within, PartsAt
  <2>3. st \in PartsAt(pc[p]) /\ st \in Parts
    BY <2>2 DEF PartsAt, Parts
  <2>4. /\ TypeOK' /\ Located' /\ Places' /\ Torn'
        /\ \A q \in Closers : q # p => pc'[q] = pc[q] /\ part'[q] = part[q]
    BY <1>1, <2>1, <2>2, <2>3, PartGoesOn
  <2>5. part'[p] = st
    BY <2>1 DEF Continue, CloseInv, TypeOK
  <2>6. (Removing => Removing') /\ (Forgetting => Forgetting') /\ (st = "forget" => Forgetting')
    BY <2>2, <2>4, <2>5 DEF Removing, Forgetting
  <2>7. registered => Forgetting'
    BY <1>1, <2>1, <2>6 DEF Bound
  <2>8. ASSUME NEW q \in Closers PROVE Forgotten(q)'
    BY <1>1, <2>2, <2>4, <2>5 DEF Forgotten
  <2>9. Bound'
    BY <1>1, <2>2, <2>6, <2>7, <2>8 DEF Bound, HookTaken
  <2>. QED
    BY <2>4, <2>9 DEF CloseInv
<1>3. CASE Forget(p)
  <2>1. /\ UNCHANGED <<connVars, reader, hooked, open, up, noteVars>> /\ registered' = FALSE
        /\ part[p] = "forget"
    BY <1>3 DEF Forget, Within
  <2>2. \/ registered /\ Continue(p, "remove")
        \/ ~registered /\ Continue(p, "shut") /\ pc[p] \in Closing
        \/ ~registered /\ Continue(p, "unhook") /\ pc[p] \in Unreading
        \/ ~registered /\ Step(p, Behind(p)) /\ pc[p] \notin Closing
    BY <1>3, <2>1, UnregisteredGoesOn DEF Forget
  <2>3. PICK st \in {"remove", "shut", "unhook"} :
          /\ registered => st = "remove" /\ Continue(p, st)
          /\ st = "shut" => pc[p] \in Closing
          /\ \/ Continue(p, st) /\ st \in PartsAt(pc[p])
             \/ Step(p, Behind(p)) /\ pc[p] \notin Closing
    BY <1>1, <2>1, <2>2 DEF PartsAt, Closing, Unreading
  <2>4. st \in Parts
    BY DEF Parts
  <2>5. /\ TypeOK' /\ Located' /\ Places' /\ Torn'
        /\ \A q \in Closers : q # p => pc'[q] = pc[q] /\ part'[q] = part[q]
        /\ \/ pc'[p] = pc[p] /\ part'[p] = st
           \/ /\ part'[p] \notin {"remove", "shut"}
              /\ part'[p] = "forget" => pc'[p] \notin Closing
    BY <1>1, <2>1, <2>3, <2>4, PartGoesOn
  <2>6. registered => part'[p] = "remove"
    BY <2>3 DEF Continue, CloseInv, TypeOK
  <2>7. reader' => Removing'
    BY <1>1, <2>1, <2>5, <2>6 DEF Bound, Removing
  <2>8. ASSUME NEW q \in Closers PROVE HookTaken(q)'
    <3>1. CASE q # p
      BY <1>1, <2>1, <2>5, <3>1 DEF HookTaken, Past
    <3>2. CASE q = p
      <4>1. pc[p] \in Closing => ~hooked
        BY <1>1, <2>1 DEF HookTaken, Past
      <4>2. Past(p)' => pc[p] \in Closing
        BY <2>3, <2>5 DEF Past
      <4>. QED
        BY <2>1, <3>2, <4>1, <4>2 DEF HookTaken
    <3>. QED
      BY <3>1, <3>2
  <2>9. Bound'
    BY <1>1, <2>1, <2>7, <2>8 DEF Bound, Forgotten
  <2>. QED
    BY <2>5, <2>9 DEF CloseInv
<1>4. CASE RemoveReader(p)
  <2>1. /\ UNCHANGED <<connVars, registered, hooked, open, up, noteVars>> /\ reader' = FALSE
        /\ part[p] = "remove" /\ ~registered
    BY <1>1, <1>4 DEF RemoveReader, Within, Forgotten
  <2>2. \/ Continue(p, "shut") /\ pc[p] \in Closing
        \/ Continue(p, "unhook") /\ pc[p] \in Unreading
        \/ Step(p, Behind(p)) /\ pc[p] \notin Closing
    BY <1>4, <2>1, UnregisteredGoesOn DEF RemoveReader
  <2>3. PICK st \in {"shut", "unhook"} :
          /\ st = "shut" => pc[p] \in Closing
          /\ \/ Continue(p, st) /\ st \in PartsAt(pc[p])
             \/ Step(p, Behind(p)) /\ pc[p] \notin Closing
    BY <2>2 DEF PartsAt, Closing, Unreading
  <2>4. st \in Parts
    BY DEF Parts
  <2>5. /\ TypeOK' /\ Located' /\ Places' /\ Torn'
        /\ \A q \in Closers : q # p => pc'[q] = pc[q] /\ part'[q] = part[q]
        /\ \/ pc'[p] = pc[p] /\ part'[p] = st
           \/ /\ part'[p] \notin {"remove", "shut"}
              /\ part'[p] = "forget" => pc'[p] \notin Closing
    BY <1>1, <2>1, <2>3, <2>4, PartGoesOn
  <2>6. ASSUME NEW q \in Closers PROVE HookTaken(q)'
    <3>1. CASE q # p
      BY <1>1, <2>1, <2>5, <3>1 DEF HookTaken, Past
    <3>2. CASE q = p
      <4>1. pc[p] \in Closing => ~hooked
        BY <1>1, <2>1 DEF HookTaken, Past
      <4>2. Past(p)' => pc[p] \in Closing
        BY <2>3, <2>5 DEF Past
      <4>. QED
        BY <2>1, <3>2, <4>1, <4>2 DEF HookTaken
    <3>. QED
      BY <3>1, <3>2
  <2>7. Bound'
    BY <1>1, <2>1, <2>6 DEF Bound, Forgotten
  <2>. QED
    BY <2>5, <2>7 DEF CloseInv
<1>5. CASE Unhook(p)
  <2>1. /\ UNCHANGED <<connVars, registered, reader, open, up, noteVars>> /\ hooked' = FALSE
        /\ part[p] = "unhook" /\ Step(p, Behind(p)) /\ pc[p] \notin Closing /\ ~registered
    BY <1>1, <1>5 DEF Unhook, Within, PartsAt, Forgotten
  <2>2. "unhook" \in Parts
    BY DEF Parts
  <2>3. /\ TypeOK' /\ Located' /\ Places' /\ Torn'
        /\ \A q \in Closers : q # p => pc'[q] = pc[q] /\ part'[q] = part[q]
    BY <1>1, <2>1, <2>2, PartGoesOn
  <2>4. Removing => Removing'
    BY <2>1, <2>3 DEF Removing
  <2>5. Bound'
    BY <1>1, <2>1, <2>4 DEF Bound, Forgotten, HookTaken
  <2>. QED
    BY <2>3, <2>5 DEF CloseInv
<1>6. CASE Shut(p)
  <2>1. /\ UNCHANGED <<connVars, registered, reader, hooked, up, noteVars>> /\ open' = FALSE
        /\ part[p] = "shut" /\ Step(p, Behind(p)) /\ ~hooked
    BY <1>1, <1>6 DEF Shut, Within, HookTaken, Past
  <2>2. "shut" \in Parts
    BY DEF Parts
  <2>3. /\ TypeOK' /\ Located' /\ Places' /\ Torn'
        /\ \A q \in Closers : q # p => pc'[q] = pc[q] /\ part'[q] = part[q]
        /\ part'[p] \notin {"remove", "shut"} \/ part'[p] = part[p]
    BY <1>1, <2>1, <2>2, PartGoesOn
  <2>4. part'[p] # "unhook"
    <3>1. part'[p] = FirstPart(Behind(p))
      BY <2>1 DEF Step, Go, CloseInv, TypeOK
    <3>. QED
      BY <3>1 DEF FirstPart
  <2>5. (Removing => Removing') /\ (Forgetting => Forgetting')
    BY <2>1, <2>3 DEF Removing, Forgetting
  <2>6. ASSUME NEW q \in Closers PROVE Forgotten(q)'
    BY <1>1, <2>1, <2>3, <2>4 DEF Forgotten
  <2>7. Bound'
    BY <1>1, <2>1, <2>5, <2>6 DEF Bound, HookTaken
  <2>. QED
    BY <2>3, <2>7 DEF CloseInv
<1>. QED
  BY <1>2, <1>3, <1>4, <1>5, <1>6 DEF Streaming

-----------------------------------------------------------------------------
(* _cleanup: every entrant goes through with what the others left; the one *)
(* that clears the tables drops the handlers if they are there, and the    *)
(* one that finds them there releases the rest.                            *)
LEMMA Teardown ==
  ASSUME CloseInv, NEW p \in Closers,
         Enter(p) \/ Disconnect(p) \/ ClearTables(p) \/ DropHandlers(p) \/ Release(p)
  PROVE  CloseInv'
<1>. DEFINE From == {"enter", "disconnect", "clear", "handlers", "release"}
            To   == {"fire", "channel", "clear", "enter", "raised", "handlers", "release"}
<1>1. To \subseteq Points
  BY DEF Points, OffLoop, Closing
<1>2. /\ again' \in [Closers -> BOOLEAN] /\ leavers' \subseteq Closers
      /\ \E to \in To : Go(p, to)
  BY <1>1, Leaves DEF CloseInv, TypeOK, Enter, Disconnect, ClearTables, DropHandlers, Release, Step
<1>3. PICK to \in To : Go(p, to)
  BY <1>2
<1>4. pc[p] \in From /\ Runs(p) /\ pc[p] \notin Closing \cup Unreading
  BY DEF Enter, Disconnect, ClearTables, DropHandlers, Release, At, Closing, Unreading
<1>5. /\ UNCHANGED <<streamVars, up, noteVars>>
      /\ closed' \in BOOLEAN /\ root' \in BOOLEAN /\ handlers' \in BOOLEAN /\ rest' \in BOOLEAN
  BY DEF CloseInv, TypeOK, Enter, Disconnect, ClearTables, Cleared, DropHandlers, Release
<1>6. /\ pc' \in [Closers -> Points] /\ part' \in [Closers -> Parts]
      /\ pc'[p] = to /\ \A q \in Closers : q # p => pc'[q] = pc[q]
      /\ loop' \in OnLoop \cup {Nobody} /\ Located'
  BY <1>1, <1>3, <1>4, Moves DEF CloseInv
<1>7. TypeOK'
  BY <1>2, <1>5, <1>6 DEF CloseInv, TypeOK, streamVars, noteVars
<1>8. Places'
  BY <1>5 DEF CloseInv, Places, noteVars
<1>9. Bound'
  BY <1>1, <1>3, <1>4, <1>5, Elsewhere DEF CloseInv
<1>10. open' = open /\ Torn /\ pc \in [Closers -> Points]
  BY <1>5 DEF streamVars, CloseInv, TypeOK
<1>11. CASE Enter(p)
  <2>1. /\ pc[p] = "enter" /\ closed' = TRUE /\ UNCHANGED <<root, handlers, rest>>
        /\ pc'[p] \in {"fire", "channel"} /\ (pc'[p] = "fire" => ~root)
    BY <1>10, <1>11 DEF Enter, At, Step, Go, TornDown
  <2>2. Torn'
    BY <1>6, <1>10, <2>1 DEF Torn
  <2>. QED
    BY <1>6, <1>7, <1>8, <1>9, <2>2 DEF CloseInv
<1>12. CASE Disconnect(p)
  <2>1. /\ pc[p] = "disconnect" /\ UNCHANGED <<closed, root, handlers, rest>>
        /\ pc'[p] \in {"clear", "enter", "raised"}
    BY <1>10, <1>12 DEF Disconnect, At, Step, Leave, Go
  <2>2. Torn'
    BY <1>6, <1>10, <2>1 DEF Torn
  <2>. QED
    BY <1>6, <1>7, <1>8, <1>9, <2>2 DEF CloseInv
<1>13. CASE ClearTables(p)
  <2>1. /\ pc[p] = "clear" /\ root' = FALSE /\ UNCHANGED <<closed, handlers, rest>>
        /\ pc'[p] = "handlers"
    BY <1>10, <1>13 DEF ClearTables, Cleared, At, Step, Go
  <2>2. Torn'
    BY <1>6, <1>10, <2>1 DEF Torn
  <2>. QED
    BY <1>6, <1>7, <1>8, <1>9, <2>2 DEF CloseInv
<1>14. CASE DropHandlers(p)
  <2>1. /\ pc[p] = "handlers" /\ handlers' = FALSE /\ UNCHANGED <<closed, root, rest>>
        /\ pc'[p] \in {"release", "enter", "raised"} /\ (handlers => pc'[p] = "release")
    BY <1>10, <1>14 DEF DropHandlers, At, Step, Leave, Go
  <2>2. ~root
    BY <1>10, <2>1 DEF Torn
  <2>3. ~handlers' /\ rest' => \E q \in Closers : pc'[q] = "release"
    BY <1>6, <1>10, <2>1 DEF Torn
  <2>4. Torn'
    BY <1>6, <1>10, <2>1, <2>2, <2>3 DEF Torn
  <2>. QED
    BY <1>6, <1>7, <1>8, <1>9, <2>4 DEF CloseInv
<1>15. CASE Release(p)
  <2>1. /\ pc[p] = "release" /\ rest' = FALSE /\ UNCHANGED <<closed, root, handlers>>
        /\ pc'[p] = "fire"
    BY <1>10, <1>15 DEF Release, At, Step, Go
  <2>2. Torn'
    BY <1>6, <1>10, <2>1 DEF Torn
  <2>. QED
    BY <1>6, <1>7, <1>8, <1>9, <2>2 DEF CloseInv
<1>. QED
  BY <1>11, <1>12, <1>13, <1>14, <1>15

-----------------------------------------------------------------------------
(* Notification.                                                           *)

(* The moves of a closer that takes the lists, or tells: what they change  *)
(* besides are the lists.                                                  *)
LEMMA Tells ==
  ASSUME CloseInv, NEW p \in Closers, pc[p] \in {"fire", "notify"}, Runs(p),
         NEW to \in {"notify", "enter", "done"}, Go(p, to), again' \in [Closers -> BOOLEAN],
         UNCHANGED <<connVars, streamVars, up>>,
         listed' \subseteq Listeners, gone' \subseteq Waiters,
         taken' \in [Closers -> SUBSET Listeners], notified' \in [Listeners -> 0..1], Places'
  PROVE  CloseInv'
<1>1. to \in Points /\ pc[p] \notin Closing \cup Unreading
  BY DEF Points, OffLoop, Closing, Unreading
<1>2. /\ pc' \in [Closers -> Points] /\ part' \in [Closers -> Parts]
      /\ pc'[p] = to /\ \A q \in Closers : q # p => pc'[q] = pc[q]
      /\ loop' \in OnLoop \cup {Nobody} /\ Located'
  BY <1>1, Moves DEF CloseInv
<1>3. TypeOK'
  BY <1>2 DEF CloseInv, TypeOK, connVars, streamVars
<1>4. Torn'
  <2>1. Torn /\ UNCHANGED <<closed, root, handlers, rest, open>>
    BY DEF CloseInv, connVars, streamVars
  <2>. QED
    BY <1>2, <2>1 DEF Torn
<1>5. Bound'
  BY <1>1, Elsewhere DEF CloseInv
<1>. QED
  BY <1>2, <1>3, <1>4, <1>5 DEF CloseInv

(* Taking the lists: what was listed is in nobody else's hands.            *)
LEMMA Firing ==
  ASSUME CloseInv, NEW p \in Closers, Fire(p)
  PROVE  CloseInv'
<1>1. /\ Go(p, "notify") /\ again' = again /\ pc[p] = "fire" /\ Runs(p)
      /\ UNCHANGED <<connVars, streamVars, up, gone, notified>>
  BY DEF Fire, Step, At
<1>2. /\ listed' = {}
      /\ taken'[p] = listed
      /\ \A q \in Closers : q # p => taken'[q] = taken[q]
      /\ taken' \in [Closers -> SUBSET Listeners]
  BY DEF Fire, Emptied, CloseInv, TypeOK
<1>3. Places'
  BY <1>1, <1>2 DEF CloseInv, Places
<1>4. again \in [Closers -> BOOLEAN] /\ gone \subseteq Waiters /\ notified \in [Listeners -> 0..1]
  BY DEF CloseInv, TypeOK
<1> QED
  BY <1>1, <1>2, <1>3, <1>4, Tells

(* Telling: a listener leaves the only place it was in.                    *)
LEMMA Notifying ==
  ASSUME CloseInv, NEW p \in Closers, Notify(p)
  PROVE  CloseInv'
<1>1. {"notify", "done"} \subseteq Points
  BY DEF Points, OffLoop
<1>2. PICK to \in {"notify", "enter", "done"} : Go(p, to)
  BY <1>1, Leaves DEF CloseInv, Notify, Step
<1>3. /\ again' \in [Closers -> BOOLEAN] /\ pc[p] = "notify" /\ Runs(p)
      /\ UNCHANGED <<connVars, streamVars, up, listed, gone>>
  BY <1>1, Leaves DEF CloseInv, TypeOK, Notify, Step, At
<1>4. \/ UNCHANGED <<taken, notified>>
      \/ \E l \in taken[p] :
           /\ taken' = [taken EXCEPT ![p] = @ \ {l}]
           /\ notified' \in {notified, [notified EXCEPT ![l] = @ + 1]}
  BY DEF Notify
<1>5. /\ taken' \in [Closers -> SUBSET Listeners]
      /\ notified' \in [Listeners -> 0..1]
      /\ Places'
  <2>1. CASE UNCHANGED <<taken, notified>>
    BY <1>3, <2>1 DEF CloseInv, TypeOK, Places
  <2>2. ASSUME NEW l \in taken[p],
               taken' = [taken EXCEPT ![p] = @ \ {l}],
               notified' \in {notified, [notified EXCEPT ![l] = @ + 1]}
        PROVE  /\ taken' \in [Closers -> SUBSET Listeners]
               /\ notified' \in [Listeners -> 0..1]
               /\ Places'
    <3>1. l \in Listeners /\ notified[l] = 0
      BY DEF CloseInv, TypeOK, Places
    <3>2. taken' \in [Closers -> SUBSET Listeners]
      BY <2>2 DEF CloseInv, TypeOK
    <3>3. notified' \in [Listeners -> 0..1]
      BY <2>2, <3>1 DEF CloseInv, TypeOK
    <3>4. /\ \A q \in Closers : taken'[q] \subseteq taken[q]
          /\ \A q \in Closers : l \notin taken'[q]
      BY <2>2, <3>1 DEF CloseInv, TypeOK, Places
    <3>5. \A m \in Listeners : notified'[m] = 1 => notified[m] = 1 \/ m = l
      BY <2>2, <3>1 DEF CloseInv, TypeOK
    <3>6. l \notin listed
      BY <3>1 DEF CloseInv, Places
    <3>7. Places'
      BY <1>3, <3>1, <3>4, <3>5, <3>6 DEF CloseInv, Places
    <3> QED
      BY <3>2, <3>3, <3>7
  <2> QED
    BY <1>4, <2>1, <2>2
<1>6. listed \subseteq Listeners /\ gone \subseteq Waiters
  BY DEF CloseInv, TypeOK
<1> QED
  BY <1>2, <1>3, <1>5, <1>6, Tells

(* Listening, giving up, and the peer.                                     *)
LEMMA Others ==
  ASSUME CloseInv,
         \/ \E l \in Listeners : Register(l)
         \/ \E l \in Waiters : GiveUp(l)
         \/ PeerGone
  PROVE  CloseInv'
<1>1. UNCHANGED <<procVars, connVars, streamVars>>
  BY DEF Register, GiveUp, PeerGone
<1>2. Located' /\ Torn' /\ Bound'
  BY <1>1 DEF CloseInv, procVars, connVars, streamVars, Located, Torn, Bound, Removing,
              Forgetting, Forgotten, HookTaken, Past
<1>3. ASSUME NEW l \in Listeners, Register(l)
      PROVE  TypeOK' /\ Places'
  <2>1. /\ l \notin listed /\ \A p \in Closers : l \notin taken[p]
        /\ notified[l] = 0
    BY <1>3 DEF Register, Known, CloseInv, TypeOK
  <2>2. TypeOK'
    BY <1>1, <1>3 DEF Register, CloseInv, TypeOK, procVars, connVars, streamVars
  <2>3. Places'
    BY <1>3, <2>1 DEF Register, CloseInv, TypeOK, Places
  <2> QED
    BY <2>2, <2>3
<1>4. ASSUME NEW l \in Waiters, GiveUp(l)
      PROVE  TypeOK' /\ Places'
  <2>1. listed' \subseteq listed /\ gone' \subseteq Waiters
        /\ UNCHANGED <<up, taken, notified>>
    BY <1>4 DEF GiveUp, CloseInv, TypeOK
  <2>2. TypeOK'
    BY <1>1, <2>1 DEF CloseInv, TypeOK, procVars, connVars, streamVars
  <2>3. Places'
    BY <2>1 DEF CloseInv, Places
  <2> QED
    BY <2>2, <2>3
<1>5. CASE PeerGone
  <2>1. TypeOK'
    BY <1>1, <1>5 DEF PeerGone, CloseInv, TypeOK, procVars, connVars, streamVars, noteVars
  <2>2. Places'
    BY <1>5 DEF PeerGone, CloseInv, Places, noteVars
  <2>. QED
    BY <1>2, <2>1, <2>2 DEF CloseInv
<1> QED
  BY <1>2, <1>3, <1>4, <1>5 DEF CloseInv

-----------------------------------------------------------------------------
(* The invariant is inductive.                                             *)
THEOREM CloseInvariant == Spec => []CloseInv
<1>1. CloseInv /\ [Next]_vars => CloseInv'
  <2> SUFFICES ASSUME CloseInv, [Next]_vars PROVE CloseInv'
    OBVIOUS
  <2>1. CASE UNCHANGED vars
    BY <2>1 DEF vars, procVars, connVars, streamVars, noteVars, CloseInv, TypeOK, Located,
                Places, Torn, Bound, Removing, Forgetting, Forgotten, HookTaken, Past
  <2>2. CASE Next
    BY <2>2, Early, Streams, Teardown, Firing, Notifying, Others DEF Next, Advance, Cleanup
  <2> QED
    BY <2>1, <2>2
<1> QED
  BY <1>1, InitInv, PTL DEF Spec

(* TypeOK holds for every instance.                                        *)
THEOREM TypeCorrect == Spec => []TypeOK
<1>1. CloseInv => TypeOK
  BY DEF CloseInv
<1> QED
  BY <1>1, CloseInvariant, PTL

(* add_close_callback's "exactly once" is never more than once, whatever   *)
(* threads and callbacks of the loop close the connection at the same time.*)
THEOREM ToldOnceHolds == Spec => []ToldOnce
<1>1. CloseInv => ToldOnce
  BY DEF CloseInv, TypeOK, Places, ToldOnce
<1> QED
  BY <1>1, CloseInvariant, PTL

(* A listener on the list is told when the socket, the root and the tables *)
(* are gone; and if the handlers, the executor or the locks are not yet,   *)
(* another closer is at that step, however many of them raised on the way. *)
THEOREM ToldInTeardownHolds == Spec => []ToldInTeardown
<1>1. CloseInv => ToldInTeardown
  <2>. SUFFICES ASSUME CloseInv, NEW p \in Closers, pc[p] = "notify"
                PROVE  /\ closed /\ ~open /\ ~root
                       /\ handlers => \E q \in Closers : pc[q] = "handlers"
                       /\ rest => \E q \in Closers : pc[q] \in {"handlers", "release"}
    BY DEF ToldInTeardown
  <2>1. closed /\ ~open /\ ~root
    BY DEF CloseInv, Torn
  <2>2. handlers => \E q \in Closers : pc[q] = "handlers"
    BY <2>1 DEF CloseInv, Torn
  <2>3. ~handlers /\ rest => \E q \in Closers : pc[q] = "release"
    BY DEF CloseInv, Torn
  <2>. QED
    BY <2>1, <2>2, <2>3
<1> QED
  BY <1>1, CloseInvariant, PTL

(* What remains of "socket closed" => "reader removed": while the reader of*)
(* a closed socket is there, a closer is about to remove it, and the loop, *)
(* if it is a closer of the loop, runs nothing else before.                *)
THEOREM ReaderOwedHolds == Spec => []ReaderOwed
<1>1. CloseInv => ReaderOwed
  <2>. SUFFICES ASSUME CloseInv, ~open, reader
                PROVE  \E p \in Closers : /\ part[p] \in {"forget", "remove"}
                                          /\ p \in OnLoop => loop = p
    BY DEF ReaderOwed
  <2>1. Removing \/ Forgetting
    BY DEF CloseInv, Bound
  <2>2. PICK p \in Closers : part[p] \in {"forget", "remove"}
    BY <2>1 DEF Removing, Forgetting
  <2>3. pc[p] \notin OffLoop
    BY <2>2 DEF CloseInv, Located, PartsAt, Closing, Unreading, OffLoop
  <2>. QED
    BY <2>2, <2>3 DEF CloseInv, Located
<1> QED
  BY <1>1, CloseInvariant, PTL

=============================================================================
