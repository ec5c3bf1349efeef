---------------------------- MODULE MCEventBase ----------------------------
(* Instances of EventBase for TLC: the constants that are functions.       *)
EXTENDS EventBase, TLC

CONSTANTS ev1, ev2, ev3, d, d2, o, Pri1, Pri2    \* callbacks; those of priority 1 and 2

MCInitPri ==
    [x \in Callbacks |-> IF x \in OnceEvents THEN NPri \div 2
                        ELSE IF x \in Pri1 THEN 1 ELSE IF x \in Pri2 THEN 2 ELSE 0]
MCCallbacks == Events \cup {th_notify} \cup Deferreds
Symmetry == Permutations(Others)
MCGroup == <<>>
MCGroup2 == <<ev2, d>>
=============================================================================
