------------------------------ MODULE Pipeline --------------------------------
(***************************************************************************)
(* How the loop of an actor runs a command: the stack of behaviours        *)
(* (behavior.go, actorcontext.go), the chain of middleware around the base *)
(* handler (middleware.go, pkg/middleware) and catchPanic (goactor.go).    *)
(*                                                                         *)
(* A handler is the sequence of its layers, the outermost first; the last, *)
(* "body", is the command's Execute, or the function given to Become. The  *)
(* loop goes down the layers, and comes back up by a return or a panic.    *)
(***************************************************************************)
EXTENDS Naturals, Sequences

CONSTANTS
  Chains,     \* the choices for WithMiddleware, each a sequence of middlewares
  MaxBecome   \* bound of the model: calls of Become and BecomeReplace

Middlewares == {"recovery", "metrics", "logging"}

ASSUME ChainsKnown == Chains \subseteq Seq(Middlewares)

ASSUME MaxBecomeNat == MaxBecome \in Nat

VARIABLES
  chain,    \* ga.middleware
  stack,    \* ga.behavior
  became,   \* how many of MaxBecome have happened
  handler,  \* the handler that runs, <<>> for none
  layer,    \* the layer of it the loop is in
  way,      \* "down"; "return" or "panic" on the way up
  count,    \* Metrics.messageCount
  total,    \* Metrics.totalDurationNs, each message taking 1
  average,  \* the count a reader in AverageDuration has loaded; 0 for none
  state     \* the actor's state: "Started" or "Panicked"

behavior == <<chain, stack, became>>
running  == <<handler, layer, way>>
metrics  == <<count, total, average>>
pipeline == <<behavior, running, metrics, state>>

\* Mutant: the fold stops before the first middleware.
WrapButFirst(ms) ==
  LET from[i \in 2..(Len(ms) + 1)] ==
        IF i > Len(ms) THEN <<"body">> ELSE <<ms[i]>> \o from[i + 1]
  IN  from[2]

\* Chain folds from the right: the first middleware is the outermost.
Wrap(ms) ==
  LET from[i \in 1..(Len(ms) + 1)] ==
        IF i > Len(ms) THEN <<"body">> ELSE <<ms[i]>> \o from[i + 1]
  IN  from[1]

\* A handler given to Become has no middleware around it.
Custom == <<"body">>

PipelineInit ==
  /\ chain \in Chains
  /\ stack = <<Wrap(chain)>> /\ became = 0
  /\ handler = <<>> /\ layer = 0 /\ way = "return"
  /\ count = 0 /\ total = 0 /\ average = 0
  /\ state = "Started"

Current == stack[Len(stack)]

\* The loop takes up a command.
Run ==
  /\ handler = <<>>
  /\ handler' = Current
  /\ layer' = 1
  /\ way' = "down"
  /\ UNCHANGED <<behavior, metrics, state>>

In(name) == layer > 0 /\ handler[layer] = name

\* Recovery defers, Metrics reads the clock, Logging writes: on to the next.
GoDown ==
  /\ way = "down" /\ ~In("body")
  /\ layer' = layer + 1
  /\ UNCHANGED <<behavior, handler, way, metrics, state>>

Become == stack' = Append(stack, Custom)

BecomeReplace == stack' = [stack EXCEPT ![Len(stack)] = Custom]

\* Mutant: the base handler is popped like any other.
UnbecomeAll == stack' = SubSeq(stack, 1, Len(stack) - 1)

Unbecome == stack' = IF Len(stack) <= 1 THEN stack ELSE SubSeq(stack, 1, Len(stack) - 1)

\* The body may change the behaviour, and then returns or panics.
Body ==
  /\ way = "down" /\ In("body")
  /\ \/ /\ became < MaxBecome /\ became' = became + 1
        /\ Become \/ BecomeReplace
     \/ Unbecome /\ UNCHANGED became
     \/ UNCHANGED <<stack, became>>
  /\ way' \in {"return", "panic"}
  /\ layer' = layer - 1
  /\ UNCHANGED <<chain, handler, metrics, state>>

\* Metrics adds the message, and in another atomic step its duration.
CountMessage ==
  /\ way = "return" /\ In("metrics")
  /\ count' = count + 1
  /\ way' = "counted"
  /\ UNCHANGED <<behavior, handler, layer, total, average, state>>

\* Mutant: the duration is stored, not added.
StoreDuration ==
  /\ way = "counted"
  /\ total' = 1
  /\ way' = "return"
  /\ layer' = layer - 1
  /\ UNCHANGED <<behavior, handler, count, average, state>>

AddDuration ==
  /\ way = "counted"
  /\ total' = total + 1
  /\ way' = "return"
  /\ layer' = layer - 1
  /\ UNCHANGED <<behavior, handler, count, average, state>>

\* Recovery turns a panic into a return; the other layers let either pass.
GoUp ==
  /\ layer > 0
  /\ \/ way = "return" /\ ~In("metrics") /\ UNCHANGED way
     \/ way = "panic" /\ way' = IF In("recovery") THEN "return" ELSE "panic"
  /\ layer' = layer - 1
  /\ UNCHANGED <<behavior, handler, metrics, state>>

\* The handler has returned, or its panic is in catchPanic; the loop goes on.
Finished ==
  /\ handler # <<>> /\ layer = 0
  /\ handler' = <<>>
  /\ way' = "return"
  /\ state' = IF way = "panic" THEN "Panicked" ELSE state
  /\ UNCHANGED <<behavior, layer, metrics>>

\* AverageDuration loads the count, and then the total to divide by it.
LoadCount ==
  /\ average = 0 /\ count > 0
  /\ average' = count
  /\ UNCHANGED <<behavior, running, count, total, state>>

LoadTotal ==
  /\ average > 0
  /\ average' = 0
  /\ UNCHANGED <<behavior, running, count, total, state>>

Handle == GoDown \/ Body \/ CountMessage \/ AddDuration \/ GoUp \/ Finished
=============================================================================
