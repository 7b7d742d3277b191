------------------------------- MODULE Tetris -------------------------------
(***************************************************************************)
(* The game of Playground/Clojure/Tetris.clj.  Its state is a set of atoms, *)
(* and two kinds of threads work on them without a lock: Swing's event     *)
(* thread, which calls keyPressed, and the threads of java.util.Timer,     *)
(* whose task is move-down.  A block that lands without filling a row has  *)
(* the timer cancelled and a new one made.                                 *)
(*                                                                         *)
(* A thread can get in between any two steps of another one.  A step is    *)
(* the swap! that moves the block or takes the move back, the test of its  *)
(* position, the copying of its cells into the field, the clearing of      *)
(* rows, the dealing of a block, the end of the game; the code has more    *)
(* places to get in between.  No property rests on that: they are about    *)
(* operations that do not overlap, and about set-game-speed, which is      *)
(* modelled call by call.  The bag the blocks are dealt from is left out:  *)
(* any kind may come next.  So are the score and the colours.              *)
(***************************************************************************)
EXTENDS Integers, Sequences, FiniteSets

CONSTANTS Width, Height,    \* of global-field
          Grids,            \* per kind of block: its rotations, each with a
                            \* width and the set cells in the loops' order
          Turns,            \* a common multiple of the numbers of rotations
          Timers,           \* Timer objects, used again when they are garbage
          Edt,              \* Swing's event thread
          MaxOverlaps,      \* bound: operations begun during another one
          MaxAbove          \* bound: a block that an exception has left above
                            \* the field goes on rising when it is dropped

\* What the definitions take for granted.
IsGrid(grid) ==
    /\ grid.width \in Nat
    /\ grid.cells \in Seq(Nat \X Nat)
    /\ \A i, j \in DOMAIN grid.cells :
          grid.cells[i] = grid.cells[j] => i = j

\* A block that has not been rotated has room in the field.
HasRoom(grid) ==
    /\ grid.width <= Width
    /\ \A i \in DOMAIN grid.cells : /\ grid.cells[i][1] < grid.width
                                   /\ grid.cells[i][2] < Height

TetrisParameters ==
    /\ Width \in Nat \ {0} /\ Height \in Nat \ {0} /\ Turns \in Nat \ {0}
    /\ DOMAIN Grids # {}
    /\ \A k \in DOMAIN Grids :
          /\ Len(Grids[k]) \in Nat \ {0}
          /\ Turns % Len(Grids[k]) = 0
          /\ \A r \in 1 .. Len(Grids[k]) : IsGrid(Grids[k][r])
          /\ HasRoom(Grids[k][1])
    /\ Timers # {} /\ Edt \notin Timers
    /\ MaxOverlaps \in Nat /\ MaxAbove \in Nat

VARIABLES data,             \* of global-field: 0 for a free cell
          type, rotation, x, y,             \* active-block
          is_game_over,
          timer,            \* the atom
          status, tasks,    \* of every Timer, and how many tasks it runs
          pc,               \* of every thread: the operation and the next step
          overlaps,         \* history: operations begun during another one
          balance           \* history: cells laid and not cleared since the
                            \* field was empty, as long as nothing overlaps

block == <<type, rotation, x, y>>
field == <<data, balance>>
clock == <<timer, status, tasks>>
vars  == <<field, block, is_game_over, clock, pc, overlaps>>

Kinds   == DOMAIN Grids
Threads == Timers \cup {Edt}
Keys    == {"left", "right", "rotate", "down", "drop"}
Idle    == [op |-> "none", at |-> "idle"]

TypeOK ==
    /\ data \in Seq({0, 1})
    /\ type \in Kinds /\ rotation \in 0 .. Turns - 1
    /\ x \in Int /\ y \in Int
    /\ is_game_over \in BOOLEAN
    /\ timer \in Timers
    /\ status \in [Timers -> {"live", "cancelled", "dead"}]
    /\ tasks \in [Timers -> Nat]
    /\ \A t \in Threads : pc[t].op \in Keys \/ pc[t] = Idle
    /\ overlaps \in 0 .. MaxOverlaps
-----------------------------------------------------------------------------
EmptyField == [i \in 1 .. Width * Height |-> 0]
Grid(k, r) == Grids[k][(r % Len(Grids[k])) + 1]
Centre(k, r) == (Width - Grid(k, r).width) \div 2

\* main() has called init-blocks and set-game-speed: keys that are pressed in
\* the moment before that are left out.
InitFor(kind) ==
    /\ data = EmptyField
    /\ type = kind
    /\ rotation = 0 /\ x = Centre(type, 0) /\ y = 0
    /\ is_game_over = FALSE
    /\ timer = CHOOSE t \in Timers : TRUE
    /\ status = [t \in Timers |-> IF t = timer THEN "live" ELSE "cancelled"]
    /\ tasks = [t \in Timers |-> IF t = timer THEN 1 ELSE 0]
    /\ pc = [t \in Threads |-> Idle]
    /\ overlaps = 0 /\ balance = 0

Init == \E kind \in Kinds : InitFor(kind)

\* grid-get and grid-set: nth and assoc on a vector.
Index(cx, cy) == cx + Width * cy + 1

\* check-position-valid: the first cell that is not free decides; above the
\* field nth throws.
Cells == Grid(type, rotation).cells
Free(cx, cy) == /\ cx \in 0 .. Width - 1 /\ cy \in 0 .. Height - 1
                /\ data[Index(cx, cy)] = 0
Taken  == {j \in DOMAIN Cells : ~Free(Cells[j][1] + x, Cells[j][2] + y)}
Valid  == Taken = {}
Throws == \E j \in Taken :
              /\ \A i \in Taken : j <= i
              /\ Cells[j][1] + x \in 0 .. Width - 1
              /\ Index(Cells[j][1] + x, Cells[j][2] + y) < 1

\* commit-block: the cells are set one by one, until assoc throws; it appends
\* the one behind the last.
Lay(f, i) ==
    IF f.thrown \/ i \notin 1 .. Len(f.data) + 1
      THEN [f EXCEPT !.thrown = TRUE]
      ELSE [f EXCEPT !.data = IF i <= Len(@) THEN [@ EXCEPT ![i] = 1]
                                             ELSE Append(@, 1)]
Committed ==
    LET laid[j \in 0 .. Len(Cells)] ==
            IF j = 0 THEN [data |-> data, thrown |-> FALSE]
            ELSE Lay(laid[j - 1], Index(Cells[j][1] + x, Cells[j][2] + y))
    IN  laid[Len(Cells)]

\* grid-get-rows, and the cells of the rows that clear-lines keeps, in order.
Rows     == Len(data) \div Width
FullRows == {r \in 1 .. Rows :
                \A i \in 1 .. Width : data[Width * (r - 1) + i] = 1}
Row(r)   == [i \in 1 .. Width |-> data[Width * (r - 1) + i]]
Cleared  == Cardinality(FullRows)
Remaining ==
    LET kept[r \in 0 .. Rows] == IF r = 0 THEN << >>
                                 ELSE IF r \in FullRows THEN kept[r - 1]
                                 ELSE kept[r - 1] \o Row(r)
    IN  kept[Rows]
-----------------------------------------------------------------------------
(* Steps of a thread *)

At(t, step) == pc[t].at = step
Goto(t, step) ==
    pc' = [pc EXCEPT ![t] = IF step = "idle" THEN Idle
                                             ELSE [@ EXCEPT !.at = step]]

\* An exception ends the operation, and with it a timer and all of its tasks.
AfterThrow(t) == IF t \in Timers /\ status[t] = "live"
                   THEN [status EXCEPT ![t] = "dead"] ELSE status
Throw(t) == Goto(t, "idle") /\ status' = AfterThrow(t)

\* keyPressed, or run() of a timer's task: nothing happens after the end.
Begin(t, key) ==
    /\ At(t, "idle") /\ ~is_game_over
    /\ y >= -MaxAbove
    /\ IF \E u \in Threads : ~At(u, "idle")
         THEN overlaps < MaxOverlaps /\ overlaps' = overlaps + 1
         ELSE UNCHANGED overlaps
    /\ pc' = [pc EXCEPT ![t] = [op |-> key,
                                at |-> IF key = "drop" THEN "test" ELSE "change"]]
    /\ UNCHANGED <<field, block, is_game_over, clock>>

\* The block is moved by d: -1 takes the move back.
MoveBlock(op, d) ==
    /\ x' = CASE op = "left"  -> x - d
              [] op = "right" -> x + d
              [] OTHER        -> x
    /\ y' = IF op \in {"down", "drop"} THEN y + d ELSE y
    /\ rotation' = IF op = "rotate" THEN (rotation + d) % Turns ELSE rotation
    /\ UNCHANGED type

\* The swap! with which every operation begins, and in drop-block's loop.
Change(t) ==
    /\ At(t, "change")
    /\ MoveBlock(pc[t].op, 1)
    /\ Goto(t, "test")
    /\ UNCHANGED <<field, is_game_over, clock, overlaps>>

\* check-position-valid: drop-block tests and moves until it is not.
Test(t) ==
    /\ At(t, "test") /\ ~Throws
    /\ Goto(t, CASE ~Valid                        -> "undo"
                 [] Valid /\ pc[t].op = "drop"    -> "change"
                 [] OTHER                         -> "idle")
    /\ UNCHANGED <<field, block, is_game_over, clock, overlaps>>

TestThrows(t) ==
    /\ At(t, "test") \/ At(t, "verify")
    /\ Throws
    /\ Throw(t)
    /\ UNCHANGED <<field, block, is_game_over, timer, tasks, overlaps>>

\* Mutation of Undo: a rotation is not taken back.
UndoButRotation(t) ==
    /\ At(t, "undo")
    /\ MoveBlock(IF pc[t].op = "rotate" THEN "none" ELSE pc[t].op, -1)
    /\ Goto(t, IF pc[t].op \in {"down", "drop"} THEN "commit" ELSE "idle")
    /\ UNCHANGED <<field, is_game_over, clock, overlaps>>

\* The move is taken back; a block that cannot move down has landed.
Undo(t) ==
    /\ At(t, "undo")
    /\ MoveBlock(pc[t].op, -1)
    /\ Goto(t, IF pc[t].op \in {"down", "drop"} THEN "commit" ELSE "idle")
    /\ UNCHANGED <<field, is_game_over, clock, overlaps>>

Commit(t) ==
    /\ At(t, "commit")
    /\ data' = Committed.data
    /\ balance' = IF overlaps > 0 THEN 0 ELSE balance + Len(Cells)
    /\ IF Committed.thrown THEN Throw(t) ELSE Goto(t, "clear") /\ UNCHANGED status
    /\ UNCHANGED <<block, is_game_over, timer, tasks, overlaps>>

\* Mutation of CancelTimer: no new timer is made.
CancelOnly(t) ==
    /\ At(t, "cancel")
    /\ status' = [status EXCEPT ![timer] = "cancelled"]
    /\ Goto(t, "deal")
    /\ UNCHANGED <<field, block, is_game_over, timer, tasks, overlaps>>

\* clear-lines; set-game-speed is called only when no row was full.
ClearLines(t) ==
    /\ At(t, "clear")
    /\ data' = IF Cleared = 0 THEN data
               ELSE [i \in 1 .. Width * Cleared |-> 0] \o Remaining
    /\ balance' = IF overlaps > 0 THEN 0 ELSE balance - Width * Cleared
    /\ Goto(t, IF Cleared = 0 THEN "cancel" ELSE "deal")
    /\ UNCHANGED <<block, is_game_over, clock, overlaps>>

\* set-game-speed, with the timer in the atom at each of its three calls.
CancelTimer(t) ==
    /\ At(t, "cancel")
    /\ status' = [status EXCEPT ![timer] = "cancelled"]
    /\ Goto(t, "renew")
    /\ UNCHANGED <<field, block, is_game_over, timer, tasks, overlaps>>

\* Timers to which nobody has a reference and whose thread has left or waits
\* for ever: one of them stands for a new one, it does not matter which.
Garbage == {u \in Timers \ {timer} : At(u, "idle") /\
                                    (status[u] # "live" \/ tasks[u] = 0)}

NewTimer(t) ==
    /\ At(t, "renew")
    /\ Garbage # {}
    /\ timer'  = CHOOSE u \in Garbage : TRUE
    /\ status' = [status EXCEPT ![timer'] = "live"]
    /\ tasks'  = [tasks EXCEPT ![timer'] = 0]
    /\ Goto(t, "schedule")
    /\ UNCHANGED <<field, block, is_game_over, overlaps>>

\* A timer that somebody else has cancelled takes no task.
ScheduleTask(t) ==
    /\ At(t, "schedule")
    /\ IF status[timer] = "live"
         THEN /\ tasks' = [tasks EXCEPT ![timer] = @ + 1]
              /\ Goto(t, "deal")
              /\ UNCHANGED status
         ELSE Throw(t) /\ UNCHANGED tasks
    /\ UNCHANGED <<field, block, is_game_over, timer, overlaps>>

\* next-block, up to its test of the new block's position.
Deal(t) ==
    /\ At(t, "deal")
    /\ type' \in Kinds
    /\ rotation' = 0 /\ x' = Centre(type', 0) /\ y' = 0
    /\ Goto(t, "verify")
    /\ UNCHANGED <<field, is_game_over, clock, overlaps>>

Verify(t) ==
    /\ At(t, "verify") /\ ~Throws
    /\ Goto(t, IF Valid \/ is_game_over THEN "idle" ELSE "end")
    /\ UNCHANGED <<field, block, is_game_over, clock, overlaps>>

\* do-game-over: init-blocks, unless the game has ended meanwhile.
EndGame(t) ==
    /\ At(t, "end")
    /\ is_game_over' = TRUE
    /\ IF is_game_over
         THEN UNCHANGED <<field, block>>
         ELSE /\ data' = EmptyField /\ balance' = 0
              /\ type' \in Kinds /\ x' = Centre(type', rotation)
              /\ UNCHANGED <<rotation, y>>
    /\ Goto(t, "idle")
    /\ UNCHANGED <<clock, overlaps>>
-----------------------------------------------------------------------------
Step(t) == \/ Change(t) \/ Test(t) \/ TestThrows(t) \/ Undo(t)
           \/ Commit(t) \/ ClearLines(t)
           \/ CancelTimer(t) \/ NewTimer(t) \/ ScheduleTask(t)
           \/ Deal(t) \/ Verify(t) \/ EndGame(t)

\* A timer runs its task.
Fire(t) == status[t] = "live" /\ tasks[t] > 0 /\ Begin(t, "down")

\* keyPressed: the arrows and the space bar, and Enter, which is reset-game and
\* does nothing but clear the statistics before the game is over.
PressKey == \E key \in Keys : Begin(Edt, key)
PressEnter ==
    /\ At(Edt, "idle") /\ is_game_over
    /\ is_game_over' = FALSE
    /\ UNCHANGED <<field, block, clock, pc, overlaps>>

Next == \/ PressKey \/ PressEnter
        \/ \E t \in Timers : Fire(t)
        \/ \E t \in Threads : Step(t)

Spec == /\ Init /\ [][Next]_vars
        /\ \A t \in Threads : WF_vars(Step(t))
        /\ \A t \in Timers : WF_vars(Fire(t))
-----------------------------------------------------------------------------
(* Properties *)

\* How many tasks move the block down.
Falling == Cardinality(UNION {{t} \X (1 .. tasks[t]) :
                                  t \in {u \in Timers : status[u] = "live"}})

\* Between operations, as long as no two of them have overlapped, the game is
\* sound: the block is where nothing else is, no full row is left, no cell has
\* been laid on another or lost when rows were cleared or the game ended, and
\* one task moves the block.
SoundUnlessOverlapped ==
    overlaps = 0 /\ (\A t \in Threads : At(t, "idle")) =>
        /\ Valid
        /\ FullRows = {}
        /\ Len(data) = Width * Height
        /\ Cardinality({i \in DOMAIN data : data[i] = 1}) = balance
        /\ Falling = 1

\* However operations overlap, and even if set-game-speed fails half-way: when
\* no thread is in the middle of it, the timer in the atom runs a task, or has
\* died of an exception in one.
FallingGoesOn ==
    (\A t \in Threads : ~At(t, "renew") /\ ~At(t, "schedule")) =>
        (status[timer] = "live" /\ tasks[timer] > 0) \/ status[timer] = "dead"

\* Whatever keys are pressed, blocks keep landing until the game is over, if
\* operations do not overlap.
BlocksLand == \/ <>(overlaps > 0)
              \/ []<>(is_game_over \/ \E t \in Threads : At(t, "commit"))

\* `number of milliseconds between falling one row', Tetris.clj:387: there is
\* never more than one task that moves the block down.
OneRowPerInterval == Falling <= 1
=============================================================================
