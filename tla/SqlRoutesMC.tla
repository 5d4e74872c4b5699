---------------------------- MODULE SqlRoutesMC ----------------------------
EXTENDS SqlRoutes, TLC

CONSTANTS r1, r2, r3, ann, Ann, op, imo, nobody

MCWorkloads == {{"chat", "poll"}, {"task", "patch"}, {"chat", "task", "patch", "activity"},
                {"draft", "submit"}, {"createShift", "updateShift", "deleteShift"}, {"assignRole"},
                {"me"}, {"permissions"},
                {"assign"}, {"unassign"}, {"grant"}}
Interchangeable == Permutations(Requests)

Between(role, from, to) == [user |-> ann, role |-> role, from |-> from, to |-> to]
MCInputs == {Between(op, 0, 1), Between(op, 1, 2), Between(op, 0, 2), Between(imo, 0, 1),
             Between(op, 2, 2), Between(op, 0, 3), Between(op, 3, 4), Between(nobody, 0, 1)}
MCPatches == {Between(op, 0, 2), Between(imo, 0, 1), Between(Absent, 0, 1), Between(Absent, 1, 2),
              Between(op, 0, Absent), [Between(op, 0, 1) EXCEPT !.user = Absent]}
MCUsers == {ann}
MCRoster == {<<ann, op>>, <<ann, imo>>}
MCPeople == {<<ann, ann>>, <<ann, Ann>>}
MCTimes == 0..4
MCHorizon == 0..3
=============================================================================
