--------------------------- MODULE MCSourceAccess ---------------------------
(* Two names, one of which comes to stand for another domain; addresses of   *)
(* both families.                                                            *)
EXTENDS SourceAccess

MCV4 == {"a4", "b4"}
MCV6 == {"c6"}
MCNames == {"x", "y"}
MCNet(a) == IF a = "a4" THEN "a4/24" ELSE "b4/24"
Domain(name, domain, enabled) == [name |-> name, domain |-> domain, enabled |-> enabled]

MCStart ==
    [access |-> [mode |-> "whitelist", entries |-> {}],
     dw |-> [enabled |-> TRUE, interval |-> 300, cidr |-> 24, v4 |-> TRUE, v6 |-> FALSE,
             lastGood |-> TRUE, files |-> TRUE,
             domains |-> <<Domain("home", "x", TRUE)>>]]
MCStartDns == [d \in MCNames |-> IF d = "x" THEN {"a4", "c6"} ELSE {}]

MCAnswers == {{}, {"b4"}}
MCFiles == {FileOf({"b4"}), BadFile}

\* The domain that is there may be entered again.
MCEdits ==
    {[op |-> "mode", mode |-> "whitelist", yes |-> FALSE],
     [op |-> "enter", entry |-> "b4"], [op |-> "remove", entry |-> "b4"], [op |-> "clear"],
     [op |-> "delete", n |-> 1], [op |-> "toggle", n |-> 1],
     [op |-> "add", domain |-> Domain("home", "x", TRUE)],
     [op |-> "add", domain |-> Domain("home", "y", TRUE)],
     [op |-> "expand", bits |-> 32]}
=============================================================================
