------------------------------- MODULE PubSub -------------------------------
(* Publish and subscribe (core/pubsub.pyx): the event bus of connectors,      *)
(* order books and strategies.  A publisher holds its listeners by weak       *)
(* references, wrapped in PyRef (core/cpp/PyRef.cpp), in one unordered set    *)
(* per event tag.  The listeners run inside trigger_event, and may add and    *)
(* remove listeners, trigger further events and let go of objects there.      *)
(*                                                                            *)
(* Everything runs on one thread, so the state between two steps is a stack   *)
(* of trigger_event calls, the innermost on top.  A tag with no entry in      *)
(* _events is one with no listeners: no operation tells the two apart.        *)
EXTENDS Naturals, Sequences

CONSTANTS
    Listeners,      \* EventListener objects
    Tags,           \* event tags
    NoTag,          \* the 0 that c_set_event_info writes when a call is over
    NoListener,     \* a trigger_event between two listeners
    MaxDepth        \* bound: trigger_event calls nested in one another

ASSUME NullAssumption == NoTag \notin Tags /\ NoListener \notin Listeners
ASSUME DepthAssumption == MaxDepth \in Nat \ {0}

VARIABLES
    held,       \* listeners some part of the program refers to strongly
    alive,      \* listeners not collected yet
    events,     \* _events: the listeners whose weak references a tag holds
    info,       \* _current_event_tag of every listener
    frames,     \* the running calls of c_trigger_event, the innermost last
    crashed     \* None was called as an EventListener

vars == <<held, alive, events, info, frames, crashed>>

(* One call of c_trigger_event: the listeners of its copy still to call, the  *)
(* one being called and, for the properties, the copy itself, the listeners   *)
(* called so far and those collected meanwhile.                               *)
Frame == [tag: Tags, todo: SUBSET Listeners, now: Listeners \cup {NoListener},
          due: SUBSET Listeners, told: SUBSET Listeners, lost: SUBSET Listeners]

Top == frames[Len(frames)]
WithTop(f) == [frames EXCEPT ![Len(frames)] = f]

(* Python code other than c_trigger_event runs: outside every trigger, or in  *)
(* the listener that the innermost one calls.                                 *)
Running == ~crashed /\ (frames # <<>> => Top.now # NoListener)

(* typed_listener keeps the listener being called alive.                      *)
Called == {frames[i].now : i \in DOMAIN frames} \ {NoListener}

-----------------------------------------------------------------------------
(* Mutant of Live: the sweep is left to the random one of c_add_listener.     *)
LiveUnswept(t) == events[t]

(* c_remove_dead_listeners.                                                   *)
Live(t) == events[t] \cap alive

RemoveDead(t) == events' = [events EXCEPT ![t] = Live(t)]

(* Mutant of ToCall: the set of _events itself is iterated over.              *)
ToCallShared(f) == events[f.tag] \ f.told

(* The set a trigger iterates over is its own copy.                           *)
ToCall(f) == f.todo

-----------------------------------------------------------------------------
Init ==
    /\ held = Listeners
    /\ alive = Listeners
    /\ events = [t \in Tags |-> {}]
    /\ info = [l \in Listeners |-> NoTag]
    /\ frames = <<>>
    /\ crashed = FALSE

(* c_add_listener; once in a while it sweeps the tag.                         *)
AddListener(t, l) ==
    /\ Running
    /\ l \in held
    /\ \E swept \in BOOLEAN :
          events' = [events EXCEPT ![t] = (IF swept THEN Live(t) ELSE @) \cup {l}]
    /\ UNCHANGED <<held, alive, info, frames, crashed>>

(* c_remove_listener, which always sweeps (unless the tag has no entry).      *)
RemoveListener(t, l) ==
    /\ Running
    /\ l \in held
    /\ events' = [events EXCEPT ![t] = Live(t) \ {l}]
    /\ UNCHANGED <<held, alive, info, frames, crashed>>

(* c_get_listeners, which returns what is left.                               *)
GetListeners(t) ==
    /\ Running
    /\ RemoveDead(t)
    /\ UNCHANGED <<held, alive, info, frames, crashed>>

(* c_trigger_event up to its loop; a tag left with no listener returns.       *)
Trigger(t) ==
    /\ Running
    /\ Len(frames) < MaxDepth
    /\ RemoveDead(t)
    /\ frames' = IF Live(t) = {} THEN frames
                 ELSE Append(frames, [tag |-> t, todo |-> Live(t), now |-> NoListener,
                                      due |-> Live(t), told |-> {}, lost |-> {}])
    /\ UNCHANGED <<held, alive, info, crashed>>

(* The loop takes the next reference.  A listener collected since the sweep   *)
(* reads as None, and calling a C method of None is undefined: it stands for  *)
(* the end of the program.                                                    *)
CallNext ==
    /\ ~crashed
    /\ frames # <<>>
    /\ Top.now = NoListener
    /\ \E l \in ToCall(Top) :
          /\ crashed' = (l \notin alive)
          /\ info' = IF l \in alive THEN [info EXCEPT ![l] = Top.tag] ELSE info
          /\ frames' = WithTop([Top EXCEPT !.now = l, !.todo = @ \ {l},
                                           !.told = @ \cup {l}])
    /\ UNCHANGED <<held, alive, events>>

(* The listener returns, or raises an Exception, which is logged; either way  *)
(* the finally clause resets its event.  After the last one the trigger       *)
(* returns to its caller.                                                     *)
Return ==
    /\ ~crashed
    /\ frames # <<>>
    /\ Top.now # NoListener
    /\ info' = [info EXCEPT ![Top.now] = NoTag]
    /\ LET after == [Top EXCEPT !.now = NoListener]
       IN  frames' = IF ToCall(after) = {} THEN SubSeq(frames, 1, Len(frames) - 1)
                     ELSE WithTop(after)
    /\ UNCHANGED <<held, alive, events, crashed>>

(* The program lets go of a listener (an executor or a strategy is over).     *)
Drop(l) ==
    /\ Running
    /\ l \in held
    /\ held' = held \ {l}
    /\ UNCHANGED <<alive, events, info, frames, crashed>>

(* The interpreter collects a listener nothing refers to.                     *)
Collect(l) ==
    /\ Running
    /\ l \in alive \ (held \cup Called)
    /\ alive' = alive \ {l}
    /\ frames' = [i \in DOMAIN frames |-> [frames[i] EXCEPT !.lost = @ \cup {l}]]
    /\ UNCHANGED <<held, events, info, crashed>>

Next ==
    \/ \E t \in Tags, l \in Listeners : AddListener(t, l) \/ RemoveListener(t, l)
    \/ \E t \in Tags : GetListeners(t) \/ Trigger(t)
    \/ CallNext
    \/ Return
    \/ \E l \in Listeners : Drop(l) \/ Collect(l)

Spec == Init /\ [][Next]_vars

-----------------------------------------------------------------------------
TypeOK ==
    /\ held \subseteq alive /\ alive \subseteq Listeners
    /\ events \in [Tags -> SUBSET Listeners]
    /\ info \in [Listeners -> Tags \cup {NoTag}]
    /\ frames \in Seq(Frame) /\ Len(frames) <= MaxDepth
    /\ crashed \in BOOLEAN

(* A listener carries an event tag only while some trigger is calling it,     *)
(* whatever the listeners raise and however the triggers nest (the finally    *)
(* clause of c_trigger_event).                                                *)
IdleListenersHaveNoEvent ==
    \A l \in Listeners : info[l] # NoTag => l \in Called

(* A trigger that returns called the listeners its tag had when it began, and *)
(* no other, although its listeners and the triggers nested in it added and   *)
(* removed listeners of the same tag meanwhile ("It is extremely important    *)
(* that this set of listeners is a C++ copy").                                *)
TriggerReachesItsListeners ==
    [][Len(frames') < Len(frames) => Top.told = Top.due]_vars

(* Only a listener collected while the trigger runs can be met as None: one   *)
(* that died before has been swept.                                           *)
OnlyLostMidTrigger == crashed => Top.now \in Top.lost
=============================================================================
