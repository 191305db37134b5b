---------------------------- MODULE MCConfigLib ----------------------------
(* ConfigLib with documents whose sections overlap, and one for each way   *)
(* in which a document is not applied: a mandatory tag that is missing,    *)
(* validate() refusing it or throwing, no section of the system, a log     *)
(* level that is no string, the application's validator.                   *)
EXTENDS ConfigLib, TLC

CONSTANTS app, group, system,  \* values, named for the section they are in
          number               \* a value that is no string

Doc(a, g, s) == [validate |-> "fits",
                 app |-> [tag \in a |-> app], group |-> [tag \in g |-> group],
                 system |-> IF s = {} THEN None ELSE [tag \in s |-> system]]

VetoedDoc == Doc({"group"}, {}, {"logLevel", "brokers", "topic"})

Saved == {Doc({"group"}, {"logLevel"}, {"logLevel", "brokers"}),
          Doc({"group", "appId", "logLevel"}, {"logLevel", "brokers"}, {"brokers"}),
          Doc({"group", "logLevel"}, {}, {"topic"}),
          [Doc({"group"}, {}, {"brokers"}) EXCEPT !.validate = "refused"],
          [Doc({"group"}, {}, {"brokers"}) EXCEPT !.validate = "throws"],
          Doc({"group", "brokers"}, {}, {}),
          [Doc({"group"}, {"brokers"}, {"brokers"}) EXCEPT
              !.app = [group |-> app, logLevel |-> number]],
          VetoedDoc}

Unwanted == {CreateConfig(VetoedDoc)}
=============================================================================
