---------------------------- MODULE MCMergedFrame ----------------------------
(* MergedFrame with two clients and two entities.  A behaviour looks at    *)
(* one kind of data: the entities, the players, or the counters, of which  *)
(* client 1 has few.  The kinds do not depend on each other.               *)
EXTENDS MergedFrame

Plain == [lost |-> 0, acked |-> 0, commands |-> 0, resent |-> 0, span |-> 0,
          ps |-> NoPs, vps |-> NoVps, flags |-> 0, extra |-> 0,
          sees |-> {}, marks |-> {}]

View(sees, marks) == [Plain EXCEPT !.sees = sees, !.marks = marks]
Views == {View({}, {}), View({1}, {}), View({1}, {1}), View({2}, {}),
          View({1, 2}, {}), View({1, 2}, {2})}

Walk(val, marks) == [Plain EXCEPT !.ps = [val |-> val, veh |-> FALSE, marks |-> marks]]
Drive(val, vval, marks) ==
  [Plain EXCEPT !.ps = [val |-> val, veh |-> TRUE, marks |-> {}],
                !.vps = [val |-> vval, marks |-> marks]]
Players == {Walk(0, {}), Walk(1, {"ping"}), Drive(0, 0, {}), Drive(1, 1, {"ping"}),
            Drive(0, 1, {})}

Counters == {[Plain EXCEPT !.lost = lost, !.acked = 2 * resent, !.commands = commands,
                           !.resent = resent, !.span = span,
                           !.flags = commands, !.extra = lost] :
               lost \in {0, 1}, commands \in {0, 1}, resent \in {0, 1}, span \in 0 .. 2}
FewCounters == {Plain, [Plain EXCEPT !.lost = 1, !.acked = 2, !.flags = 1,
                                     !.commands = 1, !.span = 1]}

World(x, y) == [n \in Entities |-> IF n = 1 THEN x ELSE y]

Kinds == {[worlds |-> {World(0, 0), World(1, 0), World(1, 1)},
           views  |-> [c \in Clients |-> Views]],
          [worlds |-> {World(0, 0)}, views |-> [c \in Clients |-> Players]],
          [worlds |-> {World(0, 0)},
           views  |-> [c \in Clients |-> IF c = 0 THEN Counters ELSE FewCounters]]}
=============================================================================
