---------------------------- MODULE PubSubProofs ----------------------------
(***************************************************************************)
(* The event bus, for any listeners, tags and depth of nested triggers.     *)
(* Every frame partitions the listeners it is due to call into those called *)
(* and those to call; each frame but the innermost is inside a listener.    *)
(***************************************************************************)
EXTENDS PubSub, SequenceTheorems, TLAPS

IsSound(f, living) ==
    /\ f.told \cup f.todo = f.due
    /\ f.todo \subseteq living \cup f.lost

FramesAreSound == \A i \in 1 .. Len(frames) : IsSound(frames[i], alive)

(* Only the innermost trigger may be between two listeners.                 *)
OuterFramesCall == \A i \in 1 .. Len(frames) : i < Len(frames) => frames[i].now # NoListener

EventsAreCalled ==
    \A l \in Listeners : info[l] # NoTag => \E i \in 1 .. Len(frames) : frames[i].now = l

CrashesAreLate == crashed => frames # <<>> /\ Top.now \in Top.lost

IInv == TypeOK /\ FramesAreSound /\ OuterFramesCall /\ EventsAreCalled /\ CrashesAreLate

----------------------------------------------------------------------------
LEMMA FrameFields ==
    ASSUME NEW f \in Frame
    PROVE  /\ f.tag \in Tags /\ f.todo \subseteq Listeners /\ f.now \in Listeners \cup {NoListener}
           /\ f.due \subseteq Listeners /\ f.told \subseteq Listeners /\ f.lost \subseteq Listeners
  BY DEF Frame

LEMMA TopIs ==
    ASSUME TypeOK, frames # <<>>
    PROVE  Len(frames) \in Nat \ {0} /\ Len(frames) \in 1 .. Len(frames) /\ Top \in Frame
  <1>1. Len(frames) \in Nat /\ \A i \in 1 .. Len(frames) : frames[i] \in Frame
    BY DEF TypeOK
  <1>2. Len(frames) # 0
    BY DEF TypeOK
  <1> QED BY <1>1, <1>2 DEF Top

(* The frames after the innermost one is replaced.                          *)
LEMMA TopReplaced ==
    ASSUME TypeOK, frames # <<>>, NEW f \in Frame, frames' = WithTop(f)
    PROVE  /\ frames' \in Seq(Frame) /\ Len(frames') = Len(frames) /\ frames' # <<>>
           /\ Top' = f /\ \A i \in 1 .. Len(frames) : frames'[i] = IF i = Len(frames) THEN f ELSE frames[i]
  <1>1. Len(frames) \in Nat \ {0} /\ Len(frames) \in 1 .. Len(frames) /\ frames \in Seq(Frame)
    BY TopIs DEF TypeOK
  <1>2. frames' = [frames EXCEPT ![Len(frames)] = f]
    BY DEF WithTop
  <1>3. frames' \in Seq(Frame) /\ Len(frames') = Len(frames)
        /\ \A i \in 1 .. Len(frames) : frames'[i] = IF i = Len(frames) THEN f ELSE frames[i]
    BY <1>1, <1>2
  <1>4. frames' # <<>>
    BY <1>1, <1>3
  <1> QED BY <1>1, <1>3, <1>4 DEF Top

(* The frames after a trigger begins.                                       *)
LEMMA FramePushed ==
    ASSUME TypeOK, NEW f \in Frame, frames' = Append(frames, f)
    PROVE  /\ frames' \in Seq(Frame) /\ Len(frames) \in Nat /\ Len(frames') = Len(frames) + 1
           /\ frames' # <<>> /\ Top' = f
           /\ \A i \in 1 .. Len(frames) : frames'[i] = frames[i]
  <1>1. frames \in Seq(Frame)
    BY DEF TypeOK
  <1>2. /\ frames' \in Seq(Frame) /\ Len(frames) \in Nat /\ Len(frames') = Len(frames) + 1
        /\ frames'[Len(frames) + 1] = f /\ \A i \in 1 .. Len(frames) : frames'[i] = frames[i]
    BY <1>1
  <1>3. frames' # <<>>
    BY <1>2
  <1> QED BY <1>2, <1>3 DEF Top

LEMMA PrefixFacts ==
    ASSUME NEW S, NEW s \in Seq(S), NEW n \in Nat, n <= Len(s)
    PROVE  /\ SubSeq(s, 1, n) \in Seq(S) /\ Len(SubSeq(s, 1, n)) = n
           /\ \A i \in 1 .. n : SubSeq(s, 1, n)[i] = s[i]
  OBVIOUS

(* The frames after the innermost trigger returned.                         *)
LEMMA FramePopped ==
    ASSUME TypeOK, frames # <<>>, frames' = SubSeq(frames, 1, Len(frames) - 1)
    PROVE  /\ frames' \in Seq(Frame) /\ Len(frames') \in Nat /\ Len(frames) = Len(frames') + 1
           /\ \A i \in 1 .. Len(frames') : frames'[i] = frames[i] /\ i \in 1 .. Len(frames) /\ i < Len(frames)
  <1>1. frames \in Seq(Frame) /\ Len(frames) \in Nat \ {0}
    BY TopIs DEF TypeOK
  <1>2. Len(frames) - 1 \in Nat /\ Len(frames) - 1 <= Len(frames)
    BY <1>1
  <1>3. /\ SubSeq(frames, 1, Len(frames) - 1) \in Seq(Frame)
        /\ Len(SubSeq(frames, 1, Len(frames) - 1)) = Len(frames) - 1
        /\ \A i \in 1 .. Len(frames) - 1 : SubSeq(frames, 1, Len(frames) - 1)[i] = frames[i]
    BY <1>1, <1>2, PrefixFacts
  <1> QED BY <1>1, <1>3

(* A function on 1 .. n is a sequence of length n.                          *)
LEMMA FunctionIsSequence ==
    ASSUME NEW S, NEW n \in Nat, NEW f \in [1 .. n -> S]
    PROVE  f \in Seq(S) /\ Len(f) = n
  <1>1. f \in Seq(S)
    BY SeqDef
  <1>2. Len(f) \in Nat /\ 1 .. Len(f) = 1 .. n
    BY <1>1, LenProperties
  <1>3. \A m \in Nat : m # 0 => (m \in 1 .. n <=> m <= n) /\ (m \in 1 .. Len(f) <=> m <= Len(f))
    BY <1>2
  <1>4. ~(n < Len(f)) /\ ~(Len(f) < n)
    BY <1>2, <1>3
  <1> QED BY <1>1, <1>2, <1>4

----------------------------------------------------------------------------
LEMMA InitIInv == Init => IInv
  <1> SUFFICES ASSUME Init PROVE IInv
    OBVIOUS
  <1>1. frames = <<>> /\ frames \in Seq(Frame) /\ Len(frames) = 0
    BY DEF Init
  <1>2. TypeOK
    <2>1. Len(frames) <= MaxDepth
      BY <1>1, DepthAssumption
    <2>2. /\ events \in [Tags -> SUBSET Listeners] /\ info \in [Listeners -> Tags \cup {NoTag}]
          /\ held \subseteq alive /\ alive \subseteq Listeners /\ crashed \in BOOLEAN
      BY DEF Init
    <2> QED BY <1>1, <2>1, <2>2 DEF TypeOK
  <1>3. FramesAreSound /\ OuterFramesCall /\ EventsAreCalled /\ CrashesAreLate
    BY <1>1 DEF Init, FramesAreSound, OuterFramesCall, EventsAreCalled, CrashesAreLate
  <1> QED BY <1>2, <1>3 DEF IInv

(* Steps that only change which listeners a tag or the program holds.       *)
LEMMA HoldingStep ==
    ASSUME IInv, held' \subseteq held, events' \in [Tags -> SUBSET Listeners],
           UNCHANGED <<alive, info, frames, crashed>>
    PROVE  IInv'
  BY DEF IInv, TypeOK, FramesAreSound, IsSound, OuterFramesCall, EventsAreCalled, CrashesAreLate, Top

LEMMA TriggerStep ==
    ASSUME IInv, NEW t \in Tags, Trigger(t)
    PROVE  IInv'
  <1> USE DEF IInv
  <1>1. /\ Len(frames) < MaxDepth /\ events' = [events EXCEPT ![t] = Live(t)] /\ Running
        /\ UNCHANGED <<held, alive, info, crashed>>
    BY DEF Trigger, RemoveDead
  <1>2. Live(t) \subseteq Listeners /\ Live(t) \subseteq alive
    BY DEF Live, TypeOK
  <1>3. events' \in [Tags -> SUBSET Listeners] /\ ~crashed
    BY <1>1, <1>2 DEF TypeOK, Running
  <1>4. CASE frames' = frames
    BY <1>1, <1>3, <1>4, HoldingStep
  <1>5. CASE frames' # frames
    <2> DEFINE f == [tag |-> t, todo |-> Live(t), now |-> NoListener,
                     due |-> Live(t), told |-> {}, lost |-> {}]
    <2>1. frames' = Append(frames, f)
      BY <1>5 DEF Trigger
    <2>2. f \in Frame /\ IsSound(f, alive') /\ f.now = NoListener
      BY <1>1, <1>2 DEF Frame, IsSound
    <2> HIDE DEF f
    <2>3. /\ frames' \in Seq(Frame) /\ Len(frames) \in Nat /\ Len(frames') = Len(frames) + 1
          /\ frames' # <<>> /\ Top' = f
          /\ \A i \in 1 .. Len(frames) : frames'[i] = frames[i]
      BY <2>1, <2>2, FramePushed
    <2>4. frames'[Len(frames) + 1] = f
      BY <2>3 DEF Top
    <2>5. \A i \in 1 .. Len(frames') : i \in 1 .. Len(frames) \/ i = Len(frames) + 1
      BY <2>3
    <2>6. TypeOK'
      BY <1>1, <1>3, <2>3, DepthAssumption DEF TypeOK
    <2>7. FramesAreSound'
      BY <1>1, <2>2, <2>3, <2>4, <2>5 DEF FramesAreSound, IsSound
    <2>8. OuterFramesCall'
      <3> SUFFICES ASSUME NEW i \in 1 .. Len(frames'), i < Len(frames')
                   PROVE  frames'[i].now # NoListener
        BY DEF OuterFramesCall
      <3>1. i \in 1 .. Len(frames) /\ frames'[i] = frames[i]
        BY <2>3, <2>5
      <3>2. CASE i < Len(frames)
        BY <3>1, <3>2 DEF OuterFramesCall
      <3>3. CASE i = Len(frames)
        <4>1. frames # <<>>
          BY <2>3, <3>1, EmptySeq
        <4> QED BY <1>1, <3>1, <3>3, <4>1 DEF Running, Top
      <3> QED BY <2>3, <3>1, <3>2, <3>3
    <2>9. EventsAreCalled'
      BY <1>1, <2>3 DEF EventsAreCalled
    <2>10. CrashesAreLate'
      BY <1>1, <1>3 DEF CrashesAreLate
    <2> QED BY <2>6, <2>7, <2>8, <2>9, <2>10
  <1> QED BY <1>4, <1>5

LEMMA CallNextStep == IInv /\ CallNext => IInv'
  <1> SUFFICES ASSUME IInv, CallNext PROVE IInv'
    OBVIOUS
  <1> USE DEF IInv
  <1>1. PICK l \in ToCall(Top) :
            /\ ~crashed /\ frames # <<>> /\ Top.now = NoListener
            /\ crashed' = (l \notin alive)
            /\ info' = IF l \in alive THEN [info EXCEPT ![l] = Top.tag] ELSE info
            /\ frames' = WithTop([Top EXCEPT !.now = l, !.todo = @ \ {l}, !.told = @ \cup {l}])
            /\ UNCHANGED <<held, alive, events>>
    BY DEF CallNext
  <1>2. /\ Len(frames) \in Nat \ {0} /\ Len(frames) \in 1 .. Len(frames) /\ Top \in Frame
        /\ IsSound(Top, alive)
    BY <1>1, TopIs DEF FramesAreSound, Top
  <1> DEFINE f == [Top EXCEPT !.now = l, !.todo = @ \ {l}, !.told = @ \cup {l}]
  <1>3. l \in Top.todo /\ l \in Listeners /\ Top.tag \in Tags
    BY <1>1, <1>2, FrameFields DEF ToCall
  <1>4. /\ f \in Frame /\ f.now = l /\ f.todo = Top.todo \ {l} /\ f.told = Top.told \cup {l}
        /\ f.due = Top.due /\ f.lost = Top.lost
    BY <1>2, <1>3 DEF Frame
  <1> HIDE DEF f
  <1>5. /\ frames' \in Seq(Frame) /\ Len(frames') = Len(frames) /\ frames' # <<>> /\ Top' = f
        /\ \A i \in 1 .. Len(frames) : frames'[i] = IF i = Len(frames) THEN f ELSE frames[i]
    BY <1>1, <1>4, TopReplaced DEF f
  <1>6. IsSound(f, alive')
    BY <1>1, <1>2, <1>3, <1>4 DEF IsSound
  <1>7. TypeOK'
    BY <1>1, <1>3, <1>5 DEF TypeOK
  <1>8. FramesAreSound'
    BY <1>1, <1>5, <1>6 DEF FramesAreSound, IsSound
  <1>9. OuterFramesCall'
    BY <1>2, <1>5 DEF OuterFramesCall
  <1>10. EventsAreCalled'
    <2> SUFFICES ASSUME NEW k \in Listeners, info'[k] # NoTag
                 PROVE  \E i \in 1 .. Len(frames') : frames'[i].now = k
      BY DEF EventsAreCalled
    <2>1. CASE k = l
      BY <1>2, <1>4, <1>5, <2>1
    <2>2. CASE k # l
      <3>1. info[k] # NoTag
        BY <1>1, <2>2 DEF TypeOK
      <3>2. PICK i \in 1 .. Len(frames) : frames[i].now = k
        BY <3>1 DEF EventsAreCalled
      <3>3. i # Len(frames)
        BY <1>1, <3>2, NullAssumption DEF Top
      <3> QED BY <1>5, <3>2, <3>3
    <2> QED BY <2>1, <2>2
  <1>11. CrashesAreLate'
    BY <1>1, <1>2, <1>3, <1>4, <1>5 DEF CrashesAreLate, IsSound
  <1> QED BY <1>7, <1>8, <1>9, <1>10, <1>11

LEMMA ReturnStep == IInv /\ Return => IInv'
  <1> SUFFICES ASSUME IInv, Return PROVE IInv'
    OBVIOUS
  <1> USE DEF IInv
  <1> DEFINE f == [Top EXCEPT !.now = NoListener]
  <1>1. /\ ~crashed /\ frames # <<>> /\ Top.now # NoListener
        /\ info' = [info EXCEPT ![Top.now] = NoTag]
        /\ UNCHANGED <<held, alive, events, crashed>>
    BY DEF Return
  <1>2. frames' = (IF ToCall(f) = {} THEN SubSeq(frames, 1, Len(frames) - 1) ELSE WithTop(f))
    BY DEF Return
  <1>3. /\ Len(frames) \in Nat \ {0} /\ Len(frames) \in 1 .. Len(frames) /\ Top \in Frame
        /\ IsSound(Top, alive) /\ Top = frames[Len(frames)]
    BY <1>1, TopIs DEF FramesAreSound, Top
  <1>4. Top.now \in Listeners
    BY <1>1, <1>3, FrameFields
  <1>5. info' \in [Listeners -> Tags \cup {NoTag}] /\ CrashesAreLate'
    BY <1>1, <1>4 DEF TypeOK, CrashesAreLate
  <1>6. ASSUME NEW k \in Listeners, info'[k] # NoTag
        PROVE  \E i \in 1 .. Len(frames) : i # Len(frames) /\ frames[i].now = k
    <2>1. info[k] # NoTag /\ k # Top.now
      BY <1>1, <1>4, <1>6 DEF TypeOK
    <2> QED BY <1>3, <2>1 DEF EventsAreCalled
  <1>7. CASE frames' = SubSeq(frames, 1, Len(frames) - 1)
    <2>1. /\ frames' \in Seq(Frame) /\ Len(frames') \in Nat /\ Len(frames) = Len(frames') + 1
          /\ \A i \in 1 .. Len(frames') : frames'[i] = frames[i] /\ i \in 1 .. Len(frames) /\ i < Len(frames)
      BY <1>1, <1>7, FramePopped
    <2>2. TypeOK'
      BY <1>1, <1>5, <2>1, DepthAssumption DEF TypeOK
    <2>3. FramesAreSound' /\ OuterFramesCall'
      BY <1>1, <2>1 DEF FramesAreSound, IsSound, OuterFramesCall
    <2>4. \A i \in 1 .. Len(frames) : i # Len(frames) => i \in 1 .. Len(frames')
      BY <2>1
    <2>5. EventsAreCalled'
      BY <1>6, <2>1, <2>4 DEF EventsAreCalled
    <2> QED BY <1>5, <2>2, <2>3, <2>5
  <1>8. CASE frames' = WithTop(f)
    <2>1. /\ f \in Frame /\ f.now = NoListener /\ f.todo = Top.todo /\ f.told = Top.told
          /\ f.due = Top.due /\ f.lost = Top.lost
      BY <1>3 DEF Frame
    <2> HIDE DEF f
    <2>2. /\ frames' \in Seq(Frame) /\ Len(frames') = Len(frames) /\ frames' # <<>>
          /\ \A i \in 1 .. Len(frames) : frames'[i] = IF i = Len(frames) THEN f ELSE frames[i]
      BY <1>1, <1>8, <2>1, TopReplaced
    <2>3. IsSound(f, alive')
      BY <1>1, <1>3, <2>1 DEF IsSound
    <2>4. TypeOK'
      BY <1>1, <1>5, <2>2 DEF TypeOK
    <2>5. FramesAreSound' /\ OuterFramesCall'
      BY <1>1, <1>3, <2>2, <2>3 DEF FramesAreSound, IsSound, OuterFramesCall
    <2>6. EventsAreCalled'
      BY <1>6, <2>2 DEF EventsAreCalled
    <2> QED BY <1>5, <2>4, <2>5, <2>6
  <1> QED BY <1>2, <1>7, <1>8

LEMMA CollectStep ==
    ASSUME IInv, NEW l \in Listeners, Collect(l)
    PROVE  IInv'
  <1> USE DEF IInv
  <1>1. /\ ~crashed /\ l \in alive \ (held \cup Called) /\ alive' = alive \ {l}
        /\ frames' = [i \in DOMAIN frames |-> [frames[i] EXCEPT !.lost = @ \cup {l}]]
        /\ UNCHANGED <<held, events, info, crashed>>
    BY DEF Collect, Running
  <1>2. /\ Len(frames) \in Nat /\ DOMAIN frames = 1 .. Len(frames)
        /\ \A i \in 1 .. Len(frames) : frames[i] \in Frame /\ IsSound(frames[i], alive)
    BY DEF TypeOK, FramesAreSound
  <1>3. ASSUME NEW i \in 1 .. Len(frames)
        PROVE  /\ frames'[i] \in Frame /\ frames'[i].now = frames[i].now
               /\ frames'[i].told = frames[i].told /\ frames'[i].todo = frames[i].todo
               /\ frames'[i].due = frames[i].due /\ frames'[i].lost = frames[i].lost \cup {l}
    <2>1. frames'[i] = [frames[i] EXCEPT !.lost = @ \cup {l}] /\ frames[i] \in Frame
      BY <1>1, <1>2
    <2> QED BY <2>1 DEF Frame
  <1>4. frames' \in [1 .. Len(frames) -> Frame]
    BY <1>1, <1>2, <1>3
  <1>5. frames' \in Seq(Frame) /\ Len(frames') = Len(frames)
    BY <1>2, <1>4, FunctionIsSequence
  <1>6. TypeOK'
    BY <1>1, <1>5 DEF TypeOK
  <1>7. FramesAreSound'
    <2> SUFFICES ASSUME NEW i \in 1 .. Len(frames) PROVE IsSound(frames'[i], alive')
      BY <1>5 DEF FramesAreSound
    <2> QED BY <1>1, <1>2, <1>3, <1>5 DEF IsSound
  <1>8. OuterFramesCall' /\ EventsAreCalled' /\ CrashesAreLate'
    BY <1>1, <1>3, <1>5 DEF OuterFramesCall, EventsAreCalled, CrashesAreLate
  <1> QED BY <1>6, <1>7, <1>8

LEMMA Invariance == Spec => []IInv
  <1>1. IInv /\ [Next]_vars => IInv'
    <2> SUFFICES ASSUME IInv, [Next]_vars PROVE IInv'
      OBVIOUS
    <2>1. ASSUME NEW t \in Tags, NEW l \in Listeners, AddListener(t, l) \/ RemoveListener(t, l)
          PROVE  IInv'
      <3>1. Live(t) \subseteq Listeners
        BY DEF IInv, TypeOK, Live
      <3>2. events' \in [Tags -> SUBSET Listeners] /\ UNCHANGED <<held, alive, info, frames, crashed>>
        BY <2>1, <3>1 DEF IInv, TypeOK, AddListener, RemoveListener
      <3> QED BY <3>2, HoldingStep
    <2>2. ASSUME NEW t \in Tags, GetListeners(t)
          PROVE  IInv'
      <3>1. Live(t) \subseteq Listeners
        BY DEF IInv, TypeOK, Live
      <3>2. events' \in [Tags -> SUBSET Listeners] /\ UNCHANGED <<held, alive, info, frames, crashed>>
        BY <2>2, <3>1 DEF IInv, TypeOK, GetListeners, RemoveDead
      <3> QED BY <3>2, HoldingStep
    <2>3. ASSUME NEW l \in Listeners, Drop(l)
          PROVE  IInv'
      <3>1. held' \subseteq held /\ UNCHANGED <<alive, events, info, frames, crashed>>
        BY <2>3 DEF Drop
      <3>2. events' \in [Tags -> SUBSET Listeners]
        BY <3>1 DEF IInv, TypeOK
      <3> QED BY <3>1, <3>2, HoldingStep
    <2>4. CASE UNCHANGED vars
      <3>1. held' \subseteq held /\ UNCHANGED <<alive, events, info, frames, crashed>>
        BY <2>4 DEF vars
      <3>2. events' \in [Tags -> SUBSET Listeners]
        BY <3>1 DEF IInv, TypeOK
      <3> QED BY <3>1, <3>2, HoldingStep
    <2> QED BY <2>1, <2>2, <2>3, <2>4, TriggerStep, CallNextStep, ReturnStep, CollectStep DEF Next
  <1> QED BY <1>1, InitIInv, PTL DEF Spec

----------------------------------------------------------------------------
(* A listener met as None was collected while the trigger that meets it     *)
(* ran: c_remove_dead_listeners swept the ones that died before.            *)
THEOREM DeadListenersAreSwept == Spec => []OnlyLostMidTrigger
  <1>1. IInv => OnlyLostMidTrigger
    BY DEF IInv, CrashesAreLate, OnlyLostMidTrigger
  <1> QED BY <1>1, Invariance, PTL

(* The finally clause of c_trigger_event: no listener keeps the tag of an   *)
(* event that is over, whatever nests.                                      *)
THEOREM EventsDoNotLinger == Spec => []IdleListenersHaveNoEvent
  <1>1. IInv => IdleListenersHaveNoEvent
    <2> SUFFICES ASSUME IInv, NEW l \in Listeners, info[l] # NoTag PROVE l \in Called
      BY DEF IdleListenersHaveNoEvent
    <2>1. PICK i \in 1 .. Len(frames) : frames[i].now = l
      BY DEF IInv, EventsAreCalled
    <2>2. i \in DOMAIN frames
      BY DEF IInv, TypeOK
    <2> QED BY <2>1, <2>2, NullAssumption DEF Called
  <1> QED BY <1>1, Invariance, PTL

(* Since c_trigger_event iterates over its own copy, a trigger that returns *)
(* called the listeners it began with and no others.                        *)
THEOREM TriggersReachTheirListeners == Spec => TriggerReachesItsListeners
  <1> DEFINE Reached == Len(frames') < Len(frames) => Top.told = Top.due
  <1>1. IInv /\ [Next]_vars => [Reached]_vars
    <2> SUFFICES ASSUME IInv, Next, Len(frames') < Len(frames) PROVE Top.told = Top.due
      OBVIOUS
    <2> USE DEF IInv
    <2>0. Len(frames) \in Nat
      BY DEF TypeOK
    <2>1. ASSUME NEW t \in Tags, Trigger(t) PROVE FALSE
      <3> DEFINE f == [tag |-> t, todo |-> Live(t), now |-> NoListener,
                       due |-> Live(t), told |-> {}, lost |-> {}]
      <3>1. frames' = frames \/ frames' = Append(frames, f)
        BY <2>1 DEF Trigger
      <3>2. f \in Frame
        BY DEF Frame, Live, TypeOK
      <3> HIDE DEF f
      <3> QED BY <2>0, <3>1, <3>2, FramePushed
    <2>2. CASE CallNext
      <3>1. PICK l \in ToCall(Top) : frames # <<>> /\
                frames' = WithTop([Top EXCEPT !.now = l, !.todo = @ \ {l}, !.told = @ \cup {l}])
        BY <2>2 DEF CallNext
      <3>2. Top \in Frame
        BY <3>1, TopIs
      <3> DEFINE f == [Top EXCEPT !.now = l, !.todo = @ \ {l}, !.told = @ \cup {l}]
      <3>3. f \in Frame
        BY <3>1, <3>2, FrameFields DEF Frame, ToCall
      <3> HIDE DEF f
      <3>4. Len(frames') = Len(frames)
        BY <3>1, <3>3, TopReplaced DEF f
      <3> QED BY <2>0, <3>4
    <2>3. CASE Return
      <3> DEFINE f == [Top EXCEPT !.now = NoListener]
      <3>1. frames # <<>>
            /\ frames' = (IF ToCall(f) = {} THEN SubSeq(frames, 1, Len(frames) - 1) ELSE WithTop(f))
        BY <2>3 DEF Return
      <3>2. Top \in Frame /\ IsSound(Top, alive)
        BY <3>1, TopIs DEF FramesAreSound, Top
      <3>3. f \in Frame /\ f.todo = Top.todo
        BY <3>2 DEF Frame
      <3>4. CASE ToCall(f) = {}
        BY <3>2, <3>3, <3>4 DEF ToCall, IsSound
      <3> HIDE DEF f
      <3>5. CASE frames' = WithTop(f)
        BY <2>0, <3>1, <3>3, <3>5, TopReplaced
      <3> QED BY <3>1, <3>4, <3>5
    <2>4. ASSUME NEW l \in Listeners, Collect(l) PROVE FALSE
      <3>1. /\ frames' = [i \in DOMAIN frames |-> [frames[i] EXCEPT !.lost = @ \cup {l}]]
            /\ DOMAIN frames = 1 .. Len(frames) /\ \A i \in 1 .. Len(frames) : frames[i] \in Frame
        BY <2>4 DEF Collect, TypeOK
      <3>2. \A f \in Frame : [f EXCEPT !.lost = @ \cup {l}] \in Frame
        BY DEF Frame
      <3>3. frames' \in [1 .. Len(frames) -> Frame]
        BY <3>1, <3>2
      <3> QED BY <2>0, <3>3, FunctionIsSequence
    <2>5. frames' = frames => FALSE
      BY <2>0
    <2> QED BY <2>1, <2>2, <2>3, <2>4, <2>5 DEF Next, AddListener, RemoveListener, GetListeners, Drop
  <1>2. Spec => [][Reached]_vars
    BY <1>1, Invariance, PTL DEF Spec
  <1> QED BY <1>2 DEF TriggerReachesItsListeners
=============================================================================
