------------------------------- MODULE SigDemo -------------------------------
(***************************************************************************)
(* The signal demonstrations of ch7: sigdemo1 catches SIGINT, sigdemo3     *)
(* SIGINT and SIGQUIT, with handlers that may interrupt each other, and    *)
(* sigactdemo SIGINT, once, with a handler that nothing may interrupt.     *)
(* What main does in between matters only where it can end.                *)
(***************************************************************************)
EXTENDS Naturals, Sequences

CONSTANT MaxPresses            \* bound on the Ctrl-C and Ctrl-\ of the user

VARIABLES program, pc,         \* which one runs, and where its main is
          input,               \* of sigdemo3: what the last read has left there
          action,              \* what a signal does: "default" ends the process
          stack,               \* the handlers that run, the innermost last
          pending, ran,        \* signals not delivered, and calls of each handler
          presses

vars == <<program, pc, input, action, stack, pending, ran, presses>>

Sigs == {"INT", "QUIT"}
Alive == pc \notin {"returned", "killed"}

Init == /\ program \in {"sigdemo1", "sigdemo3", "sigactdemo"}
        /\ pc = "INT" /\ input = "unset"
        /\ action = [s \in Sigs |-> "default"]
        /\ stack = <<>> /\ pending = {} /\ presses = 0
        /\ ran = [s \in Sigs |-> 0]

\* signal and sigaction; main gives up when sigaction fails.
Install == /\ pc \in Sigs /\ stack = <<>>
           /\ \/ /\ action' = [action EXCEPT ![pc] = "handler"]
                 /\ pc' = IF program = "sigdemo3" /\ pc = "INT" THEN "QUIT" ELSE "loop"
              \/ /\ program = "sigactdemo"
                 /\ pc' = "returned" /\ UNCHANGED action
           /\ UNCHANGED <<program, input, stack, pending, ran, presses>>

\* A read of sigdemo3: a message, nothing at the end of the input, or an error,
\* which leaves input as it was; before the first message anything may be in it.
Read == /\ program = "sigdemo3" /\ pc = "loop" /\ stack = <<>>
        /\ input' \in {"quit", "other", "", input}
        /\ \/ input' \in {"quit", "unset"} /\ pc' = "returned"
           \/ input' # "quit" /\ UNCHANGED pc
        /\ UNCHANGED <<program, action, stack, pending, ran, presses>>

\* Slip, for OneReprieve: an empty sa_mask.
MaskSelf(s) == {s}

\* Blocked while the handler of s runs: s, and what sa_mask says.
Mask(s) == {s} \cup (IF program = "sigactdemo" THEN {"QUIT"} ELSE {})

Blocked == UNION {Mask(stack[k]) : k \in DOMAIN stack}

\* SA_RESETHAND puts the default back before the handler is called.
Deliver(s) == /\ Alive /\ s \in pending \ Blocked
              /\ pending' = pending \ {s}
              /\ IF action[s] = "default"
                 THEN pc' = "killed" /\ UNCHANGED <<action, stack, ran>>
                 ELSE /\ stack' = Append(stack, s)
                      /\ ran' = [ran EXCEPT ![s] = @ + 1]
                      /\ action' = IF program = "sigactdemo"
                                   THEN [action EXCEPT ![s] = "default"] ELSE action
                      /\ UNCHANGED pc
              /\ UNCHANGED <<program, input, presses>>

\* The handler has slept and returns.
Leave == /\ Alive /\ stack # <<>>
         /\ stack' = SubSeq(stack, 1, Len(stack) - 1)
         /\ UNCHANGED <<program, pc, input, action, pending, ran, presses>>

Press(s) == /\ Alive /\ presses < MaxPresses /\ presses' = presses + 1
            /\ pending' = pending \cup {s}
            /\ UNCHANGED <<program, pc, input, action, stack, ran>>

Next == Install \/ Read \/ Leave \/ \E s \in Sigs : Deliver(s) \/ Press(s)

\* Signals are delivered, and handlers end.
Fairness == WF_vars(Leave) /\ \A s \in Sigs : WF_vars(Deliver(s))
-----------------------------------------------------------------------------
\* sigactdemo survives one Ctrl-C: its handler runs once and to its end, whatever
\* is pressed meanwhile, and the next Ctrl-C ends the process.
OneReprieve ==
  program = "sigactdemo" =>
    /\ [](ran["INT"] <= 1 /\ (pc = "killed" => stack = <<>>))
    /\ (ran["INT"] = 1 /\ "INT" \in pending) ~> (pc = "killed")
=============================================================================
