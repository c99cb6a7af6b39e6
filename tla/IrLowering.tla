----------------------------- MODULE IrLowering -----------------------------
(***************************************************************************)
(* FunctionLowerer (crates/ir/src/lower.rs): a function or a flow becomes  *)
(* basic blocks.  The statements arrive one by one, as the recursion over  *)
(* the syntax tree meets them; `frames` is the stack of that recursion.    *)
(*                                                                         *)
(* `program` remembers the statements as a list of tokens, which is what   *)
(* the blocks are compared with in the end.                                *)
(*                                                                         *)
(* A function has no parameters: add_param, which gives each a slot in the *)
(* outermost scope and stores into it on entry, is left out.               *)
(***************************************************************************)
EXTENDS Naturals, Sequences, FiniteSets, SequencesExt

CONSTANTS
    Names,      \* identifiers
    Consts,     \* those that are constants of the module
    Kinds,      \* the kinds of statements programs are made of
    Flows,      \* numbers of stages; 0 stands for a function
    MaxTokens   \* bound: tokens in a program

ASSUME LoweringAssumption ==
    /\ Consts \subseteq Names
    /\ Flows \subseteq Nat
    /\ MaxTokens \in Nat

VARIABLES
    program,  \* Seq of [kind, name, scope, opener], what was lowered so far
    stages,   \* the number of stages
    stage,    \* the stage that is being lowered
    unit,     \* whether the function returns nothing
    fn,       \* [blocks, current, values, errors], the IrFunction and the errors
    env,      \* LoweringEnv: a sequence of scopes, name -> slot
    loops,    \* loop_targets
    frames,   \* open statements, innermost last
    done

vars == <<program, stages, stage, unit, fn, env, loops, frames, done>>

-----------------------------------------------------------------------------
(* Instructions, blocks and edges.  An instruction that does something the *)
(* program asks for names it: the position of the statement and the phase. *)

NoEvent == <<0, "none">>
Instr(op, def, uses, event) == [op |-> op, def |-> def, uses |-> uses, event |-> event, inputs |-> {}]
Phi(def, inputs) == [Instr("phi", def, {}, NoEvent) EXCEPT !.inputs = inputs]
Term(op, targets, uses, event) == [op |-> op, targets |-> targets, uses |-> uses, event |-> event]
Open == Term("none", <<>>, {}, NoEvent)
Jump(target) == Term("jump", <<target>>, {}, NoEvent)
Branch(value, yes, no) == Term("branch", <<yes, no>>, {value}, NoEvent)
EmptyBlock == [term |-> Open, preds |-> {}, code |-> <<>>]

(* Mutant of Terminated: a return does not count. *)
TerminatedByEdge(f) == f.blocks[f.current].term.op \in {"jump", "branch"}

Terminated(f) == f.blocks[f.current].term # Open
Successors(term) == ToSet(term.targets)

SetTerminator(f, term) ==
    IF Terminated(f)
    THEN [f EXCEPT !.errors = @ \cup {"duplicate terminator"}]
    ELSE [f EXCEPT !.blocks =
            [b \in DOMAIN f.blocks |->
                [f.blocks[b] EXCEPT
                    !.term = IF b = f.current THEN term ELSE @,
                    !.preds = IF b \in Successors(term) THEN @ \cup {f.current} ELSE @]]]

Emit(f, instrs) == [f EXCEPT !.blocks[f.current].code = @ \o instrs]
NewValues(f, n) == [f EXCEPT !.values = @ + n]
NewBlocks(f, n) == [f EXCEPT !.blocks = @ \o [i \in 1 .. n |-> EmptyBlock]]
EnterBlock(f, b) == [f EXCEPT !.current = b]
Fail(f, error) == [f EXCEPT !.errors = @ \cup {error}]

(* if !self.current_block_terminated() { set_terminator(...) } *)
Close(f, term) == IF Terminated(f) THEN f ELSE SetTerminator(f, term)

EnsureOpenBlock(f) ==
    IF Terminated(f) THEN EnterBlock(NewBlocks(f, 1), Len(f.blocks) + 1) ELSE f

-----------------------------------------------------------------------------
(* Scopes *)

NewScope == [n \in {} |-> 0]
PushScope(e) == Append(e, NewScope)

(* Mutant of PopScope: the names of a block stay visible. *)
KeepScope(e) == e

PopScope(e) == IF Len(e) > 1 THEN Front(e) ELSE e
Insert(e, name, slot) ==
    [e EXCEPT ![Len(e)] = [n \in DOMAIN @ \cup {name} |-> IF n = name THEN slot ELSE @[n]]]
Bound(e, name) == {i \in DOMAIN e : name \in DOMAIN e[i]}

(* Mutant of Lookup: the outermost binding wins. *)
LookupOutermost(e, name) == e[CHOOSE i \in Bound(e, name) : \A j \in Bound(e, name) : i <= j][name]

Lookup(e, name) == e[CHOOSE i \in Bound(e, name) : \A j \in Bound(e, name) : j <= i][name]

-----------------------------------------------------------------------------
NoName == "none"
Here == Len(program) + 1
StageTokens == {p \in DOMAIN program : program[p].kind = "stage"}
InScope ==
    CASE frames # <<>> -> Last(frames).scope
      [] frames = <<>> /\ StageTokens = {} -> 0
      [] frames = <<>> /\ StageTokens # {} ->
            CHOOSE p \in StageTokens : \A q \in StageTokens : q <= p
Token(kind, name, opener) == [kind |-> kind, name |-> name, scope |-> InScope, opener |-> opener]
Add(kind, name) == program' = Append(program, Token(kind, name, 0))
Room == ~done /\ Len(program) + Len(frames) < MaxTokens

Init ==
    /\ program = <<>>
    /\ stages \in Flows
    /\ unit \in IF stages = 0 THEN BOOLEAN ELSE {TRUE}
    /\ LET start == [blocks |-> <<EmptyBlock>>, current |-> 1, values |-> 0, errors |-> {}]
       IN  IF stages = 0
           THEN stage = 0 /\ fn = start
           ELSE stage = 1 /\ fn = EnterBlock(SetTerminator(NewBlocks(start, stages + 1), Jump(2)), 2)
    /\ env = PushScope(<<NewScope>>)
    /\ loops = <<>>
    /\ frames = <<>>
    /\ done = FALSE

-----------------------------------------------------------------------------
(* Statements without a body *)

Let(name) ==
    LET f == EnsureOpenBlock(fn)
        value == f.values + 1
        slot == f.values + 2
    IN  /\ Room /\ "let" \in Kinds
        /\ fn' = NewValues(Emit(f, <<Instr("const", value, {}, NoEvent),
                                     Instr("alloc", slot, {}, <<Here, "slot">>),
                                     Instr("store", 0, {slot, value}, <<Here, "do">>)>>), 2)
        /\ env' = Insert(env, name, slot)
        /\ Add("let", name)
        /\ UNCHANGED <<stages, stage, unit, loops, frames, done>>

(* An expression statement that reads a variable: a constant of the module *)
(* is looked for first.                                                    *)
Use(name) ==
    LET f == EnsureOpenBlock(fn)
        value == f.values + 1
        known == name \in Consts \/ Bound(env, name) # {}
    IN  /\ Room /\ "use" \in Kinds
        /\ fn' = NewValues(Emit(IF known THEN f ELSE Fail(f, "unknown identifier"),
                    IF name \in Consts \/ ~known
                    THEN <<Instr("const", value, {}, <<Here, "do">>)>>
                    ELSE <<Instr("load", value, {Lookup(env, name)}, <<Here, "do">>)>>), 1)
        /\ Add("use", name)
        /\ UNCHANGED <<stages, stage, unit, env, loops, frames, done>>

Assign(name) ==
    LET f == EnsureOpenBlock(fn)
        value == f.values + 1
        computed == NewValues(Emit(f, <<Instr("const", value, {}, NoEvent)>>), 1)
    IN  /\ Room /\ "assign" \in Kinds
        /\ fn' = IF Bound(env, name) # {}
                 THEN Emit(computed, <<Instr("store", 0, {Lookup(env, name), value}, <<Here, "do">>)>>)
                 ELSE SetTerminator(Fail(computed, "unknown identifier"),
                                    Term("unreachable", <<>>, {}, <<Here, "stuck">>))
        /\ Add("assign", name)
        /\ UNCHANGED <<stages, stage, unit, env, loops, frames, done>>

Return ==
    LET f == EnsureOpenBlock(fn)
        value == f.values + 1
    IN  /\ Room /\ "return" \in Kinds
        /\ fn' = IF unit
                 THEN SetTerminator(f, Term("return", <<>>, {}, <<Here, "return">>))
                 ELSE SetTerminator(NewValues(Emit(f, <<Instr("const", value, {}, NoEvent)>>), 1),
                                    Term("return", <<>>, {value}, <<Here, "return">>))
        /\ Add("return", NoName)
        /\ UNCHANGED <<stages, stage, unit, env, loops, frames, done>>

LeaveFor(kind, target) ==
    LET f == EnsureOpenBlock(fn)
    IN  /\ Room /\ kind \in Kinds
        /\ fn' = IF loops # <<>>
                 THEN SetTerminator(f, Jump(target))
                 ELSE SetTerminator(Fail(f, "outside of a loop"),
                                    Term("unreachable", <<>>, {}, <<Here, "stuck">>))
        /\ Add(kind, NoName)
        /\ UNCHANGED <<stages, stage, unit, env, loops, frames, done>>

Break == LeaveFor("break", IF loops = <<>> THEN 0 ELSE Last(loops).break)

(* Mutant of Continue: the outermost loop goes on. *)
ContinueOutermost == LeaveFor("continue", IF loops = <<>> THEN 0 ELSE Head(loops).continue)

Continue == LeaveFor("continue", IF loops = <<>> THEN 0 ELSE Last(loops).continue)

-----------------------------------------------------------------------------
(* If *)

Frame(kind, other, exit) ==
    [kind |-> kind, at |-> Here, scope |-> Here, other |-> other, exit |-> exit, index |-> 0]
RoomForBody == ~done /\ Len(program) + Len(frames) + 1 < MaxTokens
Opens(kind, name, frame) ==
    /\ Add(kind, name)
    /\ frames' = Append(frames, frame)
Ends(kind) ==
    /\ program' = Append(program, [kind |-> kind, name |-> NoName,
                                   scope |-> program[Last(frames).at].scope,
                                   opener |-> Last(frames).at])
    /\ frames' = Front(frames)

BeginIf ==
    LET f == EnsureOpenBlock(fn)
        value == f.values + 1
        n == Len(f.blocks)
        tested == NewBlocks(NewValues(Emit(f, <<Instr("const", value, {}, <<Here, "test">>)>>), 1), 3)
    IN  /\ RoomForBody /\ "if" \in Kinds
        /\ fn' = EnterBlock(SetTerminator(tested, Branch(value, n + 1, n + 2)), n + 1)
        /\ env' = PushScope(env)
        /\ Opens("if", NoName, Frame("then", n + 2, n + 3))
        /\ UNCHANGED <<stages, stage, unit, loops, done>>

Else ==
    LET frame == Last(frames)
    IN  /\ ~done /\ "else" \in Kinds /\ Len(program) + Len(frames) < MaxTokens
        /\ frames # <<>> /\ frame.kind = "then"
        /\ fn' = EnterBlock(Close(fn, Jump(frame.exit)), frame.other)
        /\ env' = PushScope(PopScope(env))
        /\ program' = Append(program, [kind |-> "else", name |-> NoName,
                                       scope |-> program[frame.at].scope, opener |-> frame.at])
        /\ frames' = [frames EXCEPT ![Len(frames)] = [@ EXCEPT !.kind = "else", !.scope = Here]]
        /\ UNCHANGED <<stages, stage, unit, loops, done>>

(* Mutant of EndIf: without an else, the else block is left open. *)
EndIfHalf ==
    LET frame == Last(frames)
    IN  /\ ~done /\ frames # <<>> /\ frame.kind \in {"then", "else"}
        /\ fn' = EnterBlock(Close(fn, Jump(frame.exit)), frame.exit)
        /\ env' = PopScope(env)
        /\ Ends("endif")
        /\ UNCHANGED <<stages, stage, unit, loops, done>>

EndIf ==
    LET frame == Last(frames)
        closed == Close(fn, Jump(frame.exit))
    IN  /\ ~done /\ frames # <<>> /\ frame.kind \in {"then", "else"}
        /\ fn' = EnterBlock(IF frame.kind = "else"
                            THEN closed
                            ELSE SetTerminator(EnterBlock(closed, frame.other), Jump(frame.exit)),
                            frame.exit)
        /\ env' = PopScope(env)
        /\ Ends("endif")
        /\ UNCHANGED <<stages, stage, unit, loops, done>>

-----------------------------------------------------------------------------
(* Loops *)

BeginWhile ==
    LET f == EnsureOpenBlock(fn)
        n == Len(f.blocks)
        value == f.values + 1
        entered == EnterBlock(SetTerminator(NewBlocks(f, 3), Jump(n + 1)), n + 1)
        tested == NewValues(Emit(entered, <<Instr("const", value, {}, <<Here, "test">>)>>), 1)
    IN  /\ RoomForBody /\ "while" \in Kinds
        /\ fn' = EnterBlock(SetTerminator(tested, Branch(value, n + 2, n + 3)), n + 2)
        /\ env' = PushScope(env)
        /\ loops' = Append(loops, [break |-> n + 3, continue |-> n + 1])
        /\ Opens("while", NoName, Frame("while", n + 1, n + 3))
        /\ UNCHANGED <<stages, stage, unit, done>>

EndWhile ==
    LET frame == Last(frames)
    IN  /\ ~done /\ frames # <<>> /\ frame.kind = "while"
        /\ fn' = EnterBlock(Close(fn, Jump(frame.other)), frame.exit)
        /\ env' = PopScope(env)
        /\ loops' = Front(loops)
        /\ Ends("endwhile")
        /\ UNCHANGED <<stages, stage, unit, done>>

(* values: the array, its length, the slot, zero, the index, the test, the *)
(* element; blocks: header, body, continue, exit.                          *)
BeginFor(name) ==
    LET f == EnsureOpenBlock(fn)
        n == Len(f.blocks)
        v == f.values
        before == NewBlocks(NewValues(Emit(f,
                    <<Instr("const", v + 1, {}, NoEvent),
                      Instr("call", v + 2, {v + 1}, <<Here, "iter">>),
                      Instr("alloc", v + 3, {}, <<Here, "slot">>),
                      Instr("const", v + 4, {}, NoEvent)>>), 7), 4)
        header == Emit(EnterBlock(SetTerminator(before, Jump(n + 1)), n + 1),
                    <<Phi(v + 5, {<<v + 4, f.current>>}),
                      Instr("binop", v + 6, {v + 5, v + 2}, <<Here, "test">>)>>)
        body == Emit(EnterBlock(SetTerminator(header, Branch(v + 6, n + 2, n + 4)), n + 2),
                    <<Instr("index", v + 7, {v + 1, v + 5}, <<Here, "item">>),
                      Instr("store", 0, {v + 3, v + 7}, NoEvent)>>)
    IN  /\ RoomForBody /\ "for" \in Kinds
        /\ fn' = body
        /\ env' = PushScope(Insert(PushScope(env), name, v + 3))
        /\ loops' = Append(loops, [break |-> n + 4, continue |-> n + 3])
        /\ Opens("for", name, [Frame("for", n + 3, n + 4) EXCEPT !.index = v + 5])
        /\ UNCHANGED <<stages, stage, unit, done>>

AddInput(instr, input) == [instr EXCEPT !.inputs = @ \cup {input}]

(* Mutant of PatchPhi: the new input is said to come from the body's end. *)
PatchPhiFromBody(f, header, index, value, pred) ==
    [f EXCEPT !.blocks[header].code =
        [i \in DOMAIN @ |-> IF @[i].op = "phi" /\ @[i].def = index
                            THEN AddInput(@[i], <<value, pred - 1>>)
                            ELSE @[i]]]

PatchPhi(f, header, index, value, pred) ==
    [f EXCEPT !.blocks[header].code =
        [i \in DOMAIN @ |-> IF @[i].op = "phi" /\ @[i].def = index
                            THEN AddInput(@[i], <<value, pred>>)
                            ELSE @[i]]]

EndFor ==
    LET frame == Last(frames)
        header == frame.other - 2
        v == fn.values
        stepped == Emit(EnterBlock(Close(fn, Jump(frame.other)), frame.other),
                    <<Instr("const", v + 1, {}, NoEvent),
                      Instr("binop", v + 2, {v + 1, frame.index}, <<frame.at, "step">>)>>)
    IN  /\ ~done /\ frames # <<>> /\ frame.kind = "for"
        /\ fn' = EnterBlock(PatchPhi(SetTerminator(NewValues(stepped, 2), Jump(header)),
                                     header, frame.index, v + 2, frame.other), frame.exit)
        /\ env' = PopScope(PopScope(env))
        /\ loops' = Front(loops)
        /\ Ends("endfor")
        /\ UNCHANGED <<stages, stage, unit, done>>

-----------------------------------------------------------------------------
(* The end of a stage, and of the function *)

StageExit == stages + 2
StageBlock(n) == IF n = stages THEN StageExit ELSE n + 2

NextStage ==
    /\ Room /\ frames = <<>> /\ stage < stages
    /\ fn' = EnterBlock(Close(fn, Jump(StageBlock(stage))), stage + 2)
    /\ env' = PushScope(PopScope(env))
    /\ stage' = stage + 1
    /\ program' = Append(program, [kind |-> "stage", name |-> NoName, scope |-> 0, opener |-> 0])
    /\ UNCHANGED <<stages, unit, loops, frames, done>>

DefaultTerminator ==
    Term(IF unit THEN "return" ELSE "unreachable", <<>>, {}, <<Len(program) + 1, "end">>)

Finish ==
    /\ ~done /\ frames = <<>> /\ stage = stages
    /\ fn' = Close(IF stages = 0 THEN fn ELSE EnterBlock(Close(fn, Jump(StageExit)), StageExit),
                   DefaultTerminator)
    /\ env' = PopScope(env)
    /\ done' = TRUE
    /\ UNCHANGED <<program, stages, stage, unit, loops, frames>>

Next ==
    \/ \E n \in Names : Let(n) \/ Use(n) \/ Assign(n) \/ BeginFor(n)
    \/ Return \/ Break \/ Continue
    \/ BeginIf \/ Else \/ EndIf
    \/ BeginWhile \/ EndWhile \/ EndFor
    \/ NextStage \/ Finish

Spec == Init /\ [][Next]_vars
=============================================================================
