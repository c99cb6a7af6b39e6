---------------------------- MODULE Interpreter ----------------------------
(***************************************************************************)
(* The tree-walking interpreter of the playground (crates/interpreter):    *)
(* one environment for all calls, in which functions are looked up too,    *)
(* control flow carried by the result of a statement, and limits on steps, *)
(* call depth and output.                                                  *)
(*                                                                         *)
(* The program is any well-typed one: what it does next is chosen when it  *)
(* is done.  Calls and assignments may be parts of expressions: the step   *)
(* that uses their result follows them and chooses any value.  Variables   *)
(* hold data, never functions.  `frames` is the recursion of exec_block,   *)
(* exec_while, exec_for, eval_expr and call_func on the host's stack.      *)
(***************************************************************************)
EXTENDS Naturals, Sequences, FiniteSets, SequencesExt

CONSTANTS
    Consts,         \* names of module constants
    Functions,      \* names of the module's functions
    Locals,         \* names of parameters, loop bindings and let declarations,
                    \* among them any of the module's names
    Data,           \* the values programs compute
    max_call_depth,
    max_steps,
    max_output,     \* max_output_bytes
    MaxItems,       \* bound: elements of an array
    MaxRuns         \* bound: calls of `run`

ASSUME InterpreterAssumption ==
    /\ max_call_depth \in Nat \ {0}
    /\ {max_steps, max_output, MaxItems, MaxRuns} \subseteq Nat
    /\ IsFiniteSet(Consts) /\ Cardinality(Consts) <= max_steps
    /\ Consts \cap (Functions \cup {"println"}) = {}

VARIABLES
    env,         \* EnvStack: a sequence of scopes, name -> value
    frames,      \* what the host's stack holds, innermost last
    signal,      \* the result of the last statement, where it is control flow
    call_depth,
    step_count,
    stdout,
    outcome,     \* "idle", "running", "done" or an error
    runs

vars == <<env, frames, signal, call_depth, step_count, stdout, outcome, runs>>

-----------------------------------------------------------------------------
NoName == "none"
ConstValue == "constant"

NoSignal == "none"
BreakSignal == "break"
ContinueSignal == "continue"
ReturnSignal == "return"

(* EnvStack *)
NoNames == [n \in {} |-> ConstValue]
Push(e) == Append(e, NoNames)
Pop(e) == IF Len(e) > 1 THEN Front(e) ELSE e
Define(e, name, value) ==
    [e EXCEPT ![Len(e)] = [n \in DOMAIN @ \cup {name} |-> IF n = name THEN value ELSE @[n]]]
Binding(e, name) == {i \in DOMAIN e : name \in DOMAIN e[i]}

(* Mutant of Nearest: the search starts at the root. *)
Farthest(e, name) == CHOOSE i \in Binding(e, name) : \A j \in Binding(e, name) : i <= j

Nearest(e, name) == CHOOSE i \in Binding(e, name) : \A j \in Binding(e, name) : j <= i
Get(e, name) == e[Nearest(e, name)][name]
AssignTo(e, name, value) == [e EXCEPT ![Nearest(e, name)][name] = value]

(* `base` is the number of scopes when the frame was entered.  No code     *)
(* stores it; it is what the calls to pop amount to.                       *)
Frame(kind, name, items) ==
    [kind |-> kind, base |-> Len(env), inside |-> kind \in {"call", "if"},
     name |-> name, items |-> items]
Top == Last(frames)
Enter(frame) == frames' = Append(frames, frame)
Leave == frames' = Front(frames)
SetTop(frame) == frames' = Append(Front(frames), frame)

OpenCalls == {i \in DOMAIN frames : frames[i].kind = "call"}
CurrentCall == CHOOSE i \in OpenCalls : \A j \in OpenCalls : j <= i

-----------------------------------------------------------------------------
(* Type checking accepts a name where the module or the call declares it,  *)
(* a call of a function of the module where the call has no local of that  *)
(* name, an assignment to what the call declares, break and continue in a  *)
(* loop.                                                                   *)

Declared(name) == \E i \in frames[CurrentCall].base + 1 .. Len(env) : name \in DOMAIN env[i]
InScope(name) == name \in Consts \/ Declared(name)
InLoop == \E i \in DOMAIN frames : i > CurrentCall /\ frames[i].kind \in {"while", "for"}

-----------------------------------------------------------------------------
Running == outcome = "running"
Executing == Running /\ signal = NoSignal /\ Top.inside

(* Expressions are parts of statements and the conditions of loops. *)
Evaluating == Running /\ signal = NoSignal /\ (Top.inside \/ Top.kind = "while")
Statement == IF Top.inside THEN 1 ELSE 0

(* A step of exec_stmt or eval_expr each. *)
Ticks(n) == step_count + n <= max_steps /\ step_count' = step_count + n

(* `?` leaves every frame; no scope is popped. *)
Fail(error) ==
    /\ outcome' = error
    /\ frames' = <<>>
    /\ UNCHANGED <<env, signal, stdout, runs>>

Init ==
    /\ env = <<NoNames>>
    /\ frames = <<>>
    /\ signal = NoSignal
    /\ call_depth = 0
    /\ step_count = 0
    /\ stdout = <<>>
    /\ outcome = "idle"
    /\ runs = 0

(* reset_program_state *)
Fresh == 0

(* Constants are evaluated, then main is called. *)
Run ==
    /\ ~Running /\ runs < MaxRuns
    /\ step_count' = Cardinality(Consts)
    /\ Fresh < max_call_depth
    /\ env' = <<[n \in Consts |-> ConstValue], NoNames, NoNames>>
    /\ frames' = <<[Frame("call", NoName, 0) EXCEPT !.base = 1]>>
    /\ call_depth' = Fresh + 1
    /\ signal' = NoSignal
    /\ stdout' = <<>>
    /\ outcome' = "running"
    /\ runs' = runs + 1

-----------------------------------------------------------------------------
(* Statements *)

Let(name, value) ==
    /\ Executing
    /\ Ticks(2)
    /\ env' = Define(env, name, value)
    /\ UNCHANGED <<frames, signal, call_depth, stdout, outcome, runs>>

Assign(name, value) ==
    /\ Evaluating /\ Declared(name)
    /\ Ticks(Statement + 2)
    /\ env' = AssignTo(env, name, value)
    /\ UNCHANGED <<frames, signal, call_depth, stdout, outcome, runs>>

(* The callee of a call is looked up in the environment first; it is a     *)
(* function only where no open scope has a variable of its name.           *)
IsFunction(f) == Binding(env, f) = {}
NotCallable(f) == ~IsFunction(f) /\ Ticks(Statement + 2) /\ Fail("not callable")

(* println(name): the statement, the call, the callee and the argument.    *)
(* The type checker takes println for the builtin whatever is declared.    *)
Println(name) ==
    /\ Executing /\ InScope(name)
    /\ \/ NotCallable("println")
       \/ /\ IsFunction("println")
          /\ Ticks(4)
          /\ \/ /\ Len(stdout) < max_output
                /\ stdout' = Append(stdout, Get(env, name))
                /\ UNCHANGED <<env, frames, signal, outcome, runs>>
             \/ Len(stdout) = max_output /\ Fail("output too large")
    /\ UNCHANGED call_depth

(* return, or the return of an expression *)
Return ==
    /\ Executing
    /\ Ticks(1) \/ Ticks(2)
    /\ signal' = ReturnSignal
    /\ UNCHANGED <<env, frames, call_depth, stdout, outcome, runs>>

LeaveLoop(result) ==
    /\ Executing /\ InLoop
    /\ Ticks(1)
    /\ signal' = result
    /\ UNCHANGED <<env, frames, call_depth, stdout, outcome, runs>>

Break == LeaveLoop(BreakSignal)
Continue == LeaveLoop(ContinueSignal)

(* An if whose condition picks a block *)
If ==
    /\ Executing
    /\ Ticks(2)
    /\ Enter(Frame("if", NoName, 0))
    /\ env' = Push(env)
    /\ UNCHANGED <<signal, call_depth, stdout, outcome, runs>>

While ==
    /\ Executing
    /\ Ticks(1)
    /\ Enter(Frame("while", NoName, 0))
    /\ UNCHANGED <<env, signal, call_depth, stdout, outcome, runs>>

For(name, items) ==
    /\ Executing
    /\ Ticks(2)
    /\ Enter(Frame("for", name, items))
    /\ UNCHANGED <<env, signal, call_depth, stdout, outcome, runs>>

(* f(value), where f has the parameter `parameter`, or f() *)
Call(f, parameter, value) ==
    /\ Evaluating /\ ~Declared(f)
    /\ \/ NotCallable(f) /\ UNCHANGED call_depth
       \/ /\ IsFunction(f)
          /\ Ticks(Statement + IF parameter = NoName THEN 2 ELSE 3)
          /\ \/ /\ call_depth < max_call_depth
                /\ call_depth' = call_depth + 1
                /\ Enter(Frame("call", NoName, 0))
                /\ env' = Push(IF parameter = NoName
                               THEN Push(env)
                               ELSE Define(Push(env), parameter, value))
                /\ UNCHANGED <<signal, stdout, outcome, runs>>
             \/ call_depth = max_call_depth /\ Fail("stack overflow") /\ UNCHANGED call_depth

(* An error of an operator or a builtin: a division by zero, a bad index *)
Fault ==
    /\ Evaluating
    /\ Ticks(Statement + 1)
    /\ Fail("division by zero")
    /\ UNCHANGED call_depth

(* What comes next ticks once too often. *)
TimeOut ==
    /\ Running /\ signal = NoSignal
    /\ \E n \in IF Top.inside THEN 1 .. 4 ELSE IF Top.kind = "while" THEN 1 .. 3 ELSE {} :
            step_count + n > max_steps
    /\ step_count' = max_steps + 1
    /\ Fail("timeout")
    /\ UNCHANGED call_depth

-----------------------------------------------------------------------------
(* Blocks end: after their last statement, or because of `signal`. *)

EndIf ==
    /\ Running /\ Top.kind = "if"
    /\ env' = Pop(env)
    /\ Leave
    /\ UNCHANGED <<signal, call_depth, step_count, stdout, outcome, runs>>

(* Mutant of WhileTest: the condition is not counted. *)
WhileTestFree ==
    /\ Running /\ Top.kind = "while" /\ ~Top.inside
    /\ UNCHANGED step_count
    /\ \/ SetTop([Top EXCEPT !.inside = TRUE]) /\ env' = Push(env)
       \/ Leave /\ UNCHANGED env
    /\ UNCHANGED <<signal, call_depth, stdout, outcome, runs>>

WhileTest ==
    /\ Running /\ Top.kind = "while" /\ ~Top.inside
    /\ Ticks(1)
    /\ \/ SetTop([Top EXCEPT !.inside = TRUE]) /\ env' = Push(env)
       \/ Leave /\ UNCHANGED env
    /\ UNCHANGED <<signal, call_depth, stdout, outcome, runs>>

(* Where the body's result leaves the loop: it goes on, ends or returns. *)
AfterBody(repeated) ==
    IF signal \in {NoSignal, ContinueSignal}
    THEN SetTop(repeated) /\ signal' = NoSignal
    ELSE Leave /\ signal' = IF signal = BreakSignal THEN NoSignal ELSE signal

EndWhileBody ==
    /\ Running /\ Top.kind = "while" /\ Top.inside
    /\ env' = Pop(env)
    /\ AfterBody([Top EXCEPT !.inside = FALSE])
    /\ UNCHANGED <<call_depth, step_count, stdout, outcome, runs>>

NextItem ==
    /\ Running /\ Top.kind = "for" /\ ~Top.inside
    /\ \/ /\ Top.items > 0
          /\ SetTop([Top EXCEPT !.inside = TRUE, !.items = @ - 1])
          /\ \E value \in Data : env' = Push(Define(Push(env), Top.name, value))
       \/ Top.items = 0 /\ Leave /\ UNCHANGED env
    /\ UNCHANGED <<signal, call_depth, step_count, stdout, outcome, runs>>

(* Mutant of EndForBody: break leaves the scope of the binding behind. *)
EndForBodyOnce ==
    /\ Running /\ Top.kind = "for" /\ Top.inside
    /\ env' = IF signal = BreakSignal THEN Pop(env) ELSE Pop(Pop(env))
    /\ AfterBody([Top EXCEPT !.inside = FALSE])
    /\ UNCHANGED <<call_depth, step_count, stdout, outcome, runs>>

EndForBody ==
    /\ Running /\ Top.kind = "for" /\ Top.inside
    /\ env' = Pop(Pop(env))
    /\ AfterBody([Top EXCEPT !.inside = FALSE])
    /\ UNCHANGED <<call_depth, step_count, stdout, outcome, runs>>

(* The result of a call goes to the expression the call is part of. *)
EndCall ==
    /\ Running /\ Top.kind = "call"
    /\ env' = Pop(Pop(env))
    /\ Leave
    /\ call_depth' = call_depth - 1
    /\ signal' = NoSignal
    /\ outcome' = IF Len(frames) = 1 THEN "done" ELSE outcome
    /\ UNCHANGED <<step_count, stdout, runs>>

-----------------------------------------------------------------------------
Next ==
    \/ Run
    \/ \E n \in Locals, v \in Data : Let(n, v) \/ Assign(n, v)
    \/ \E n \in Locals \cup Consts : Println(n)
    \/ Return \/ Break \/ Continue
    \/ If \/ While
    \/ \E n \in Locals, k \in 0 .. MaxItems : For(n, k)
    \/ \E f \in Functions, parameter \in Locals \cup {NoName}, v \in Data : Call(f, parameter, v)
    \/ Fault \/ TimeOut
    \/ EndIf \/ WhileTest \/ EndWhileBody \/ NextItem \/ EndForBody \/ EndCall

(* The host runs the interpreter to its end. *)
Spec == Init /\ [][Next]_vars
FairSpec == Spec /\ WF_vars(Running /\ Next)

-----------------------------------------------------------------------------
(* Properties *)

Signals == {NoSignal, BreakSignal, ContinueSignal, ReturnSignal}
Errors == {"timeout", "stack overflow", "output too large", "division by zero", "not callable"}
Values == Data \cup {ConstValue}
Scopes == UNION {[names -> Values] : names \in SUBSET (Consts \cup Locals)}

(* Every variable keeps its type and its limit: depth, steps and output    *)
(* never pass what `Interpreter` was given (check_output_growth, tick,     *)
(* call_func).                                                             *)
TypeOK ==
    /\ env \in Seq(Scopes) /\ env # <<>>
    /\ \A i \in DOMAIN frames :
            /\ frames[i].kind \in {"call", "if", "while", "for"}
            /\ frames[i].name \in Locals \cup {NoName}
            /\ frames[i].items \in 0 .. MaxItems
            /\ frames[i].base \in 1 .. Len(env)
    /\ signal \in Signals
    /\ call_depth \in 0 .. max_call_depth
    /\ step_count \in 0 .. max_steps + 1
    /\ stdout \in Seq(Values) /\ Len(stdout) <= max_output
    /\ outcome \in {"idle", "running", "done"} \cup Errors
    /\ runs \in 0 .. MaxRuns

(* The scopes between a frame and the next one *)
ScopesOf(frame) ==
    IF frame.kind = "call" \/ (frame.kind = "for" /\ frame.inside) THEN 2
    ELSE IF frame.kind = "if" \/ (frame.kind = "while" /\ frame.inside) THEN 1
    ELSE 0

(* Between two steps, whatever mixture of break, continue and return left  *)
(* the blocks before it, the environment holds exactly the scopes of the   *)
(* open frames and call_depth is the number of open calls; after a run     *)
(* that succeeded, only the root is left (exec_block, exec_for, call_func, *)
(* reset_program_state).                                                   *)
Balanced ==
    /\ Running =>
        /\ frames # <<>> /\ frames[1].base = 1
        /\ \A i \in DOMAIN frames :
                frames[i].base + ScopesOf(frames[i]) =
                    IF i = Len(frames) THEN Len(env) ELSE frames[i + 1].base
        /\ call_depth = Cardinality(OpenCalls)
    /\ outcome = "done" => Len(env) = 1 /\ call_depth = 0

(* What holds between any two steps: types and balance. *)
BalancedInv == TypeOK /\ Balanced

(* The scopes of each open call: the k-th call that is open has those from *)
(* its base to that of the next call.                                      *)
Kth(S, k) == CHOOSE i \in S : Cardinality({j \in S : j <= i}) = k
Bases == [k \in 1 .. Cardinality(OpenCalls) |-> frames[Kth(OpenCalls, k)].base]
Calls ==
    [k \in DOMAIN Bases |->
        SubSeq(env, Bases[k] + 1, IF k = Len(Bases) THEN Len(env) ELSE Bases[k + 1])]

Dynamic ==
    INSTANCE CallScopes WITH
        Functions <- Functions \cup {"println"}, Builtin <- "println",
        calls <- Calls, printed <- stdout, lost <- outcome = "not callable"

(* What a program sees of the one environment, however it leaves blocks,   *)
(* loops, calls and runs, and whatever names it gives its locals: declared *)
(* and assigned is the innermost open block of the call itself, read is    *)
(* the name of the call itself or else that of the latest caller that has  *)
(* it, and only then the constant; a function is found where neither the   *)
(* call nor a caller has a local of its name (get_by_id, assign_by_id,     *)
(* eval_ident, call_func).  This is not the lexical scoping that env.rs:1  *)
(* and :91 speak of: a constant that a function names is its caller's      *)
(* local wherever a caller has a local of that name.                       *)
KeepsScoping == Dynamic!Spec

(* Every run ends, whatever the program does: loops that never exit and    *)
(* recursion without end meet a limit (tick, max_call_depth).              *)
RunsEnd == Running ~> ~Running
=============================================================================
