------------------------- MODULE MCPlatformConsole -------------------------
(* PlatformConsole on a small instance. *)
EXTENDS PlatformConsole

Text(word) == [word |-> word, upper |-> FALSE, spaced |-> FALSE]

MCWords == {"spark", "flink", "beam", "prod", "p0", "p1"}

MCEnums ==
    [runs |-> [engineType |-> {"spark", "flink"}],
     alerts |-> [alertSeverity |-> {"p0", "p1"}]]

MCItems ==
    [api |-> [runs |-> << [id |-> "run1", run |-> "run1", engineType |-> "spark", queueName |-> {"prod", "batch"}],
                          [id |-> "run2", run |-> "run2", engineType |-> "flink", queueName |-> {"prod"}],
                          [id |-> "run3", run |-> "run3", engineType |-> "flink", queueName |-> {"batch"}] >>,
              alerts |-> << [id |-> "alert1", run |-> "run1", alertSeverity |-> "p1"] >>],
     mock |-> [runs |-> << [id |-> "run1", run |-> "run1", engineType |-> "spark", queueName |-> {"prod"}] >>,
               alerts |-> << [id |-> "mock1", run |-> Absent, alertSeverity |-> "p1"] >>]]

MCMockStatus == [alert \in {"mock1"} |-> "open"]

\* Spelled with spaces and capitals, out of range, not a number, unknown.
MCTyped ==
    { [view |-> "alerts", params |-> <<>>, mock |-> "on"],
      [view |-> "overview", params |-> <<>>, mock |-> "0"],
      [view |-> "home", params |-> <<>>, mock |-> Absent],
      [view |-> "alerts", mock |-> Absent,
       params |-> [alertSeverity |-> [word |-> "p1", upper |-> TRUE, spaced |-> TRUE], page |-> NaN]],
      [view |-> "runs", mock |-> "yes",
       params |-> [engineType |-> Text("beam"), pageSize |-> 9, page |-> 7,
                   queueName |-> [word |-> "prod", upper |-> TRUE, spaced |-> TRUE]]] }

MCFilters ==
    [runs |-> {[engineType |-> NoFilter, queueName |-> NoFilter, page |-> 1, pageSize |-> 2]},
     alerts |-> {[alertSeverity |-> Text("p0"), page |-> 1, pageSize |-> 2]}]
=============================================================================
