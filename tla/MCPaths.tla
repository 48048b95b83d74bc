------------------------------ MODULE MCPaths ------------------------------
(***************************************************************************)
(* Control flow graphs for PathRecording.                                  *)
(***************************************************************************)
EXTENDS PathRecording, TLC

CONSTANTS in, h, s, t, g, u, out, L, M

\* while (...) { select; } with a branch back to the header from two blocks
OneLoop(selects, iterations, jumps, paths) ==
  [block |-> {in, h, s, t, out}, entry |-> in, loop |-> {L},
   header |-> (L :> h), body |-> (L :> {h, s, t}), latches |-> (L :> {s, t}),
   exit |-> (L :> out), selects |-> selects,
   succ |-> (in :> <<h>> @@ h :> <<s, out>> @@ s :> <<h, t>> @@ t :> <<h>>
             @@ out :> <<>>),
   returning |-> (L :> None), iterations |-> iterations, jumps |-> jumps,
   paths |-> paths]

\* a loop without any branch
Endless ==
  [block |-> {in, h}, entry |-> in, loop |-> {L},
   header |-> (L :> h), body |-> (L :> {h}), latches |-> (L :> {h}),
   exit |-> (L :> h), selects |-> {},
   succ |-> (in :> <<h>> @@ h :> <<h>>),
   returning |-> (L :> None), iterations |-> 5, jumps |-> 1, paths |-> 1]

\* L around M; with a select in M no summary of M, nor of L
TwoLoops(selects, iterations, jumps, paths) ==
  [block |-> {in, h, g, u, s, out}, entry |-> in, loop |-> {L, M},
   header |-> (L :> h @@ M :> g), body |-> (L :> {h, g, u, s} @@ M :> {g, u}),
   latches |-> (L :> {s} @@ M :> {u}), exit |-> (L :> out @@ M :> s),
   selects |-> selects,
   succ |-> (in :> <<h>> @@ h :> <<g, out>> @@ g :> <<u, s>> @@ u :> <<g>>
             @@ s :> <<h>> @@ out :> <<>>),
   returning |->
     IF selects = {}
     THEN L :> <<Event(h, "branch", 0), Event(g, "header", 2)>>
          @@ M :> <<Event(g, "branch", 0)>>
     ELSE L :> None @@ M :> None,
   iterations |-> iterations, jumps |-> jumps,
   paths |-> paths]

MCPrograms == {OneLoop({}, 7, 1, 1), OneLoop({}, 3, 2, 1), OneLoop({t}, 2, 0, 2),
               Endless, TwoLoops({}, 2, 2, 1), TwoLoops({u}, 2, 1, 1)}
=============================================================================
