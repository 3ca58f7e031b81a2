---- MODULE MCSessions ----
\* Two processes that open one session in turn.
EXTENDS Sessions

\* Two turns that disagree: each would supersede the other's fact, and the
\* second one also confirms and guesses.
ToLearn == <<
  <<[value |-> "a", cites |-> {"request"}]>>,
  <<[value |-> "a", cites |-> {"answer"}], [value |-> "b", cites |-> {"answer"}],
    [value |-> "b", cites |-> {"request", "answer"}]>> >>
====
