-------------------------- MODULE SimulationGraphMC --------------------------
(* Small studies for SimulationGraph. *)
EXTENDS SimulationGraph, TLC

\* home -> form -> done, with a help page beside home.  The form holds the button
\* that leaves it and an input.
SignupShows ==
    "home" :> <<"logo", "join", "help">> @@ "form" :> <<"submit", "email">>
    @@ "help" :> <<"text">> @@ "done" :> <<"badge">>
SignupElements == {"logo", "join", "help", "email", "submit", "text", "badge"}
SignupKind == [e \in SignupElements |-> IF e = "email" THEN "TYPE" ELSE "CLICK"]
SignupPresses == SignupElements \ {"text", "badge"}
SignupLeads ==
    [s \in DOMAIN SignupShows |-> [e \in SignupElements |->
        CASE s = "home" /\ e = "join"   -> "form"
          [] s = "home" /\ e = "help"   -> "help"
          [] s = "home" /\ e = "logo"   -> "home"
          [] s = "form" /\ e = "submit" -> "done"
          [] OTHER -> None]]

\* The form is gated, by a semantic role that both its elements have.
FormRole == [e \in SignupElements |-> IF e \in {"email", "submit"} THEN {"form"} ELSE {}]

\* Two screens, one of them not analyzed, and a transition written after the
\* screens were read.
BareShows  == "a" :> <<"x", "y", "z">> @@ "b" :> <<>>
SmallElements == {"x", "y", "z"}
SmallKind == [e \in SmallElements |-> "CLICK"]
SmallLeads ==
    [s \in {"a", "b"} |-> [e \in SmallElements |->
        CASE s = "a" /\ e = "x" -> "b" [] s = "a" /\ e = "z" -> "gone" [] OTHER -> None]]
SmallNoMarks == [e \in SmallElements |-> {}]
=============================================================================
