----------------------------- MODULE MCPersistence ----------------------------
(* Arguments to start from: one premise with two operands; a premise that
   reads another through its variable. *)
EXTENDS Persistence

one == Roles :> rolesRow("p1") @@ "p1" :> premiseRow @@ "v1" :> variableRow("s", "p1") @@ "v2" :> variableRow("t", None)
        @@ "e1" :> expressionRow("p1", None, "and", None)
        @@ "e2" :> expressionRow("p1", "e1", "variable", "v2")
        @@ "e3" :> expressionRow("p1", "e1", "variable", "v2")

two == Roles :> rolesRow("p2") @@ "p1" :> premiseRow @@ "p2" :> premiseRow
        @@ "v1" :> variableRow("s", "p1") @@ "v2" :> variableRow("t", None)
        @@ "e1" :> expressionRow("p1", None, "variable", "v2")
        @@ "e2" :> expressionRow("p2", None, "variable", "v1")

MCStarts == {one, two}
===============================================================================
