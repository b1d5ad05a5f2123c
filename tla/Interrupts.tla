----------------------------- MODULE Interrupts -----------------------------
(***************************************************************************)
(* src/rpi-interrupts.c: the table of handlers and irq_handler.            *)
(*                                                                         *)
(* The code that is interrupted, a task or another irq_handler, is a frame *)
(* of the stack.  A source raises its line at any time; a line stays up    *)
(* until its clearer runs.  The processor masks interrupts when it enters  *)
(* irq_handler and restores the mask when it leaves.                       *)
(***************************************************************************)
EXTENDS Naturals, Sequences

CONSTANTS NumIrqs,   \* lines, scanned in their order
          MaxDepth,  \* bound: irq_handlers inside each other
          MaxRaised  \* bound: how often lines are raised

Lines == 1..NumIrqs

VARIABLES line,      \* lines that are up
          on,        \* lines enabled in the controller
          handlers,  \* lines with a handler and a clearer
          masked,    \* the I bit of the processor
          frames,    \* irq_handlers under way, the innermost last: [pc, j]
          mpc,       \* the task: "run", or inside unregister_irq_handler
          raised,    \* count
          owed       \* auxiliary: lines raised since their handler last began

vars == <<line, on, handlers, masked, frames, mpc, raised, owed>>

\* interrupts_init.
Init == /\ line = {} /\ on = {} /\ handlers = {} /\ masked = FALSE /\ frames = <<>>
        /\ mpc = [pc |-> "run", j |-> 0] /\ raised = 0 /\ owed = {}

Depth == Len(frames)
Top == frames[Depth]
SetTop(f) == frames' = [frames EXCEPT ![Depth] = f]

-----------------------------------------------------------------------------
(* The table.  A task is where it is as long as no irq_handler runs.       *)

Register(j) ==
    /\ Depth = 0 /\ mpc.pc = "run" /\ j \notin handlers
    /\ handlers' = handlers \cup {j} /\ on' = on \cup {j}
    /\ UNCHANGED <<line, masked, frames, mpc, raised, owed>>

\* The handler goes first, the line is disabled next.
Unregister(j) ==
    /\ Depth = 0 /\ mpc.pc = "run" /\ j \in handlers
    /\ handlers' = handlers \ {j} /\ mpc' = [pc |-> "disable", j |-> j]
    /\ UNCHANGED <<line, on, masked, frames, raised, owed>>
Disable ==
    /\ Depth = 0 /\ mpc.pc = "disable" /\ on' = on \ {mpc.j} /\ mpc' = [pc |-> "run", j |-> 0]
    /\ UNCHANGED <<line, handlers, masked, frames, raised, owed>>

-----------------------------------------------------------------------------
(* A device.                                                               *)

Raise(j) == /\ raised < MaxRaised /\ raised' = raised + 1 /\ line' = line \cup {j} /\ owed' = owed \cup {j}
            /\ UNCHANGED <<on, handlers, masked, frames, mpc>>

-----------------------------------------------------------------------------
(* irq_handler.                                                            *)

Enter == /\ ~masked /\ line \cap on # {} /\ Depth < MaxDepth /\ masked' = TRUE
         /\ frames' = Append(frames, [pc |-> "scan", j |-> 1])
         /\ UNCHANGED <<line, on, handlers, mpc, raised, owed>>

\* One round of the loop, for j.
Scan == /\ Depth > 0 /\ Top.pc = "scan"
        /\ SetTop(IF Top.j \notin Lines THEN [Top EXCEPT !.pc = "leave"]
                  ELSE IF Top.j \in line \cap handlers THEN [Top EXCEPT !.pc = "clear"]
                  ELSE [Top EXCEPT !.j = @ + 1])
        /\ UNCHANGED <<line, on, handlers, masked, mpc, raised, owed>>

\* clearers[j]() and ENABLE_INTERRUPTS: irq_handler may be entered again.
Clear == /\ Depth > 0 /\ Top.pc = "clear" /\ line' = line \ {Top.j} /\ masked' = FALSE
         /\ SetTop([Top EXCEPT !.pc = "handle"])
         /\ UNCHANGED <<on, handlers, mpc, raised, owed>>

\* handlers[j]() begins, and returns; DISABLE_INTERRUPTS.
Handle == /\ Depth > 0 /\ Top.pc = "handle" /\ SetTop([Top EXCEPT !.pc = "handling"]) /\ owed' = owed \ {Top.j}
          /\ UNCHANGED <<line, on, handlers, masked, mpc, raised>>

\* The line is taken down when the handler is through, once more.
HandledClear ==
    /\ Depth > 0 /\ Top.pc = "handling" /\ SetTop([Top EXCEPT !.pc = "leave"]) /\ masked' = TRUE
    /\ line' = line \ {Top.j} /\ UNCHANGED <<on, handlers, mpc, raised, owed>>

Handled == /\ Depth > 0 /\ Top.pc = "handling" /\ SetTop([Top EXCEPT !.pc = "leave"]) /\ masked' = TRUE
           /\ UNCHANGED <<line, on, handlers, mpc, raised, owed>>

Leave == /\ Depth > 0 /\ Top.pc = "leave" /\ masked' = FALSE /\ frames' = SubSeq(frames, 1, Depth - 1)
         /\ UNCHANGED <<line, on, handlers, mpc, raised, owed>>

-----------------------------------------------------------------------------
Next == \/ \E j \in Lines : Register(j) \/ Unregister(j) \/ Raise(j)
        \/ Disable \/ Enter \/ Scan \/ Clear \/ Handle \/ Handled \/ Leave

Spec == Init /\ [][Next]_vars

-----------------------------------------------------------------------------
(* Properties.                                                             *)

\* No interrupt is lost: a line that was raised since its handler last began
\* is still up, or the handler is about to begin, however many irq_handlers
\* interrupt each other, and in the middle of which the line was raised.
NoneLost == \A j \in owed : j \in line \/ \E d \in 1..Depth : frames[d] = [pc |-> "handle", j |-> j]

\* Only the innermost irq_handler runs with interrupts masked: the ones it
\* interrupted are all inside a handler, so the handlers of one line may be
\* inside each other, but never a scan or a clearer.
OnlyInHandlers == \A d \in 1..(Depth - 1) : frames[d].pc \in {"handle", "handling"}
=============================================================================
