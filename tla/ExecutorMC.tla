----------------------------- MODULE ExecutorMC -----------------------------
(* Workflows for TLC, one for each way the blocks of a graph can meet. *)
EXTENDS Executor, TLC

Empty == [c \in {} |-> {}]

\* blocks is a sequence of pairs <<block, kind>>, wires a set of triples.
Flow(blocks, wires) ==
    [blocks |-> [i \in DOMAIN blocks |-> blocks[i][1]],
     kind |-> [b \in {p[1] : p \in Range(blocks)} |-> (CHOOSE p \in Range(blocks) : p[1] = b)[2]],
     wires |-> {[from |-> t[1], handle |-> t[2], to |-> t[3]] : t \in wires},
     nodes |-> Empty, rounds |-> Empty, testLast |-> {}, fallible |-> {}]

Containing(f, c, ns, n) == [f EXCEPT !.nodes = @ @@ (c :> ns), !.rounds = @ @@ (c :> n)]
MayFail(f, bs) == [f EXCEPT !.fallible = bs]

Start == <<"start", "trigger">>
Step(b) == <<b, "regular">>

\* A join behind the branches of a condition, one of which may stay without a
\* path, beside an approval and a branch that fails.
Branches == MayFail(
    Flow(<<Start, <<"if", "condition">>, Step("a"), Step("b"), Step("join"),
           <<"ask", "approval">>, Step("then"), Step("work"), Step("help")>>,
         {<<"start", "source", "if">>, <<"if", "yes", "a">>, <<"if", "no", "b">>,
          <<"a", "source", "join">>, <<"b", "source", "join">>,
          <<"start", "source", "ask">>, <<"ask", "source", "then">>,
          <<"start", "source", "work">>, <<"work", "error", "help">>, <<"work", "source", "then">>}),
    {"work", "if"})

\* A router, an error path, and a join behind both ends of it.
Routes == MayFail(
    Flow(<<Start, <<"pick", "router">>, Step("a"), Step("b"), Step("help"), Step("next"), Step("join")>>,
         {<<"start", "source", "pick">>, <<"pick", "source", "a">>, <<"pick", "source", "b">>,
          <<"a", "source", "join">>, <<"b", "source", "join">>,
          <<"start", "source", "next">>, <<"next", "error", "help">>}),
    {"next", "a"})

\* A counted loop around a condition, an error path and a join.
CountedLoop == MayFail(Containing(
    Flow(<<Start, <<"loop", "loop">>, <<"if", "condition">>, Step("a"), Step("b"), Step("help"), Step("after")>>,
         {<<"start", "source", "loop">>, <<"loop", "start", "if">>, <<"if", "yes", "a">>,
          <<"if", "no", "b">>, <<"b", "error", "help">>, <<"loop", "end", "after">>}),
    "loop", {"if", "a", "b", "help"}, 2), {"b", "loop"})

\* A condition-driven loop around an approval, beside another approval.
WhileLoop == Containing(
    Flow(<<Start, <<"loop", "loop">>, <<"ask", "approval">>, Step("a"), Step("after"), <<"also", "approval">>>>,
         {<<"start", "source", "loop">>, <<"loop", "start", "ask">>, <<"ask", "source", "a">>,
          <<"loop", "end", "after">>, <<"start", "source", "also">>}),
    "loop", {"ask", "a"}, 0)

\* A loop tested at the end, around a condition.
RepeatLoop == [Containing(
    Flow(<<Start, <<"loop", "loop">>, <<"if", "condition">>, Step("a"), Step("b"), Step("after")>>,
         {<<"start", "source", "loop">>, <<"loop", "start", "if">>, <<"if", "yes", "a">>,
          <<"if", "no", "b">>, <<"loop", "end", "after">>}),
    "loop", {"if", "a", "b"}, 0) EXCEPT !.testLast = {"loop"}]

\* A parallel around a condition, an approval and a join.
Fork == Containing(
    Flow(<<Start, <<"fork", "parallel">>, <<"if", "condition">>, Step("a"), <<"ask", "approval">>,
           Step("join"), Step("after")>>,
         {<<"start", "source", "fork">>, <<"fork", "start", "if">>, <<"if", "yes", "a">>,
          <<"if", "no", "ask">>, <<"a", "source", "join">>, <<"ask", "source", "join">>,
          <<"fork", "end", "after">>}),
    "fork", {"if", "a", "ask", "join"}, 2)

\* A parallel joined with a branch beside it, after a counted loop.
Chain == Containing(Containing(
    Flow(<<Start, <<"loop", "loop">>, Step("x"), Step("next"), <<"fork", "parallel">>, Step("y"),
           Step("beside"), Step("after")>>,
         {<<"start", "source", "loop">>, <<"loop", "start", "x">>, <<"loop", "end", "next">>,
          <<"next", "source", "fork">>, <<"next", "source", "beside">>, <<"fork", "start", "y">>,
          <<"fork", "end", "after">>, <<"beside", "source", "after">>}),
    "loop", {"x"}, 3), "fork", {"y"}, 3)

\* A block with an error path, and a join of both its ends.
Recovery == MayFail(
    Flow(<<Start, Step("a"), Step("b"), Step("help"), Step("join")>>,
         {<<"start", "source", "a">>, <<"start", "source", "b">>, <<"a", "error", "help">>,
          <<"a", "source", "join">>, <<"help", "source", "join">>, <<"b", "source", "join">>}),
    {"a", "b"})

\* A parallel that finds no items or cannot evaluate them.
NoItems == MayFail(Containing(
    Flow(<<Start, <<"fork", "parallel">>, Step("a"), Step("after")>>,
         {<<"start", "source", "fork">>, <<"fork", "start", "a">>, <<"fork", "error", "after">>,
          <<"fork", "end", "after">>}),
    "fork", {"a"}, 0), {"fork"})

Usual == {Branches, Routes, CountedLoop, WhileLoop, RepeatLoop, Fork, Chain, Recovery, NoItems}

\* A join whose branches are one and three blocks long.
Uneven ==
    {Flow(<<Start, Step("a"), Step("x"), Step("y"), Step("z"), Step("join")>>,
          {<<"start", "source", "a">>, <<"start", "source", "x">>, <<"x", "source", "y">>,
           <<"y", "source", "z">>, <<"a", "source", "join">>, <<"z", "source", "join">>})}

\* One error handler for two blocks in a row.
SharedHandler ==
    {MayFail(Flow(<<Start, Step("a"), Step("b"), Step("help")>>,
                  {<<"start", "source", "a">>, <<"a", "source", "b">>,
                   <<"a", "error", "help">>, <<"b", "error", "help">>}),
             {"a", "b"})}

\* A join of two branches, one of which a failing block ends: the block behind
\* it stays on the active path, and holds the join back.
HeldBack ==
    {MayFail(Flow(<<Start, <<"if", "condition">>, Step("x"), Step("a"), Step("d"), Step("help"), Step("join")>>,
                  {<<"start", "source", "if">>, <<"start", "source", "x">>, <<"if", "yes", "a">>,
                   <<"a", "source", "d">>, <<"a", "error", "help">>,
                   <<"d", "source", "join">>, <<"x", "source", "join">>}),
             {"a"})}

\* An approval that joins two branches: while it asks, a block that can never run
\* comes on the path before it.
LostAnswer ==
    {MayFail(Flow(<<Start, Step("x"), Step("y"), Step("z"), Step("next"), Step("d"), Step("help"), <<"ask", "approval">>>>,
                  {<<"start", "source", "x">>, <<"start", "source", "y">>, <<"start", "source", "z">>,
                   <<"z", "source", "next">>, <<"y", "error", "help">>, <<"y", "source", "d">>,
                   <<"next", "source", "d">>, <<"d", "source", "ask">>, <<"x", "source", "ask">>}),
             {"y"})}

=============================================================================
