------------------------------ MODULE MCSandbox ------------------------------
(* Instances of SandboxExecutor for TLC. *)
EXTENDS SandboxExecutor

P(names) == [odd |-> FALSE, names |-> names]
App      == P(<<"src", "app.py">>)
Doubled  == P(<<"src", "", "app.py">>)
Hidden   == P(<<"src", ".pem">>)
Up       == P(<<"..", "app.py">>)
Rooted   == [odd |-> TRUE, names |-> <<"src">>]

\* A repository with files of every class the policies leave out or let in.
Tree == <<App, P(<<".GIT", "config">>), P(<<"server.pem">>), P(<<".github", "ci.yml">>),
          P(<<".github", "workflows", "ci.yml">>), P(<<"src", ".env.prod">>)>>

Check(id, minutes) ==
  [id |-> id, allowed |-> TRUE, arguments |-> "short", timeout |-> minutes]
Lint == Check("lint", 1)
Unit == Check("unit", 2)

Proposed(repo, edits, checks) == [tree |-> repo, edits |-> edits, checks |-> checks]

\* The proposal that runs; its checks may take longer than the client waits.
Ordinary == Proposed(Tree, <<Doubled>>, <<Lint, Unit>>)

\* Proposals that one of the two policies refuses.
Strange ==
  {Proposed(<<Hidden>>, <<App>>, <<Lint>>), Proposed(<<>>, <<Hidden>>, <<Lint>>),
   Proposed(<<>>, <<App, Doubled>>, <<Lint>>), Proposed(<<>>, <<App, App>>, <<Lint>>),
   Proposed(<<>>, <<Up>>, <<Lint>>), Proposed(<<>>, <<Rooted>>, <<Lint>>),
   Proposed(<<>>, <<P(<<"server.pem">>)>>, <<Lint>>), Proposed(<<>>, <<>>, <<Lint>>),
   Proposed(<<App>>, <<App>>, <<Lint, Lint>>), Proposed(<<App>>, <<App>>, <<>>),
   Proposed(<<App, P(<<"b">>), P(<<"c">>)>>, <<App>>, <<Lint>>)}
  \cup {Proposed(<<>>, <<App>>, <<Lint, [Unit EXCEPT !.allowed = FALSE]>>),
        Proposed(<<>>, <<App>>, <<Lint, [Unit EXCEPT !.timeout = 3]>>)}
  \cup {Proposed(<<>>, <<App>>, <<[Lint EXCEPT !.arguments = w]>>) : w \in {"wide", "long"}}

Proposable == {Ordinary} \cup Strange

=============================================================================
