------------------------------ MODULE MCConsole ------------------------------
EXTENDS Console, MigrationScripts

\* An interface without and with a gateway, differing in everything.
MCRows == {[addr |-> "a", gw |-> "none", mtu |-> 1500],
           [addr |-> "b", gw |-> "g", mtu |-> 1400]}

\* A file of its own, and a directory that holds another one and its own file.
MCDefinitions == <<[kind |-> "file", paths |-> {"db"}],
                   [kind |-> "file", paths |-> {"config"}],
                   [kind |-> "directory", paths |-> {"config", "rules"}]>>

\* Backups from elsewhere: of a smaller system, of a newer release, one with a
\* wrong checksum that has lost its envelope, and one of nothing known here.
MCUploads ==
    LET B(parts, bad, newer, bare) ==
            [parts |-> parts, masked |-> FALSE, bad |-> bad, newer |-> newer, bare |-> bare]
        db(c) == [p \in {"db"} |-> c]
        config(c) == [p \in {"config"} |-> c]
        dir(c, d) == [p \in {"config", "rules"} |-> IF p = "config" THEN c ELSE d]
    IN  {B(<<db("y")>>, 0, FALSE, FALSE),
         B(<<db("x"), config(Gone), dir(Gone, "y")>>, 0, FALSE, FALSE),
         B(<<db("y"), config("y"), dir("y", "y")>>, 0, TRUE, FALSE),
         B(<<db("y"), config("y"), dir("y", Gone)>>, 3, FALSE, TRUE),
         B(<<>>, 0, FALSE, TRUE)}
=============================================================================
