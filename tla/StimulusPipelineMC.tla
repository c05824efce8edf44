------------------------- MODULE StimulusPipelineMC -------------------------
(* A study of up to three screens for TLC: screenshots with one element each,  *)
(* 10, and a prototype of two frames, -1 and -2.                               *)
EXTENDS StimulusPipeline, TLC

Says(screen, role, twin, summary) ==
    [screen |-> screen, role |-> role, duplicate_of |-> twin, summary |-> summary]

\* The flow as it is; the second screen as a twin of the first one, with a claim
\* too many and a screen too many.
MCClassifications ==
    {<<Says(1, "entry", None, "a"), Says(2, "step", None, "a"), Says(3, "success", None, "a")>>,
     <<Says(1, "entry", None, "b"), Says(2, "entry", 1, "b"), Says(9, "step", 2, "b"),
       Says(3, "step", 9, "b"), Says(-1, "step", None, "b")>>}

Leads(from, to) == [from |-> from, element |-> IF from = -1 THEN -11 ELSE 10, to |-> to]

\* A severed answer and a contradictory one, with the flow between them or not.
MCAnswers ==
    LET severed == <<Leads(2, 1), Leads(9, 1)>>
        torn    == <<Leads(1, 3), Leads(1, 2), Leads(2, 3), Leads(-1, 1)>>
        flow    == <<Leads(1, 2), Leads(2, 3)>>
    IN  {<<severed, flow, torn>>, <<torn, severed, severed>>}

MCFindings == {<<>>, <<10>>}
Node(type, link, children) == [type |-> type, link |-> link, children |-> children, visible |-> TRUE]
Hidden(type, link) == [type |-> type, link |-> link, children |-> <<>>, visible |-> FALSE]

\* A flow whose first frame is in a section and has its hotspot in a group, beside a
\* text that leads to a frame within the second one; the second one leads to itself.
\* And what is left of it: the second frame is hidden.
MCFlowFile ==
    [pages |-> <<-90>>,
     node |-> (-90) :> Node("CANVAS", None, <<-80, -2, -3, -4>>) @@ (-80) :> Node("SECTION", None, <<-1>>)
       @@ (-1) :> Node("FRAME", None, <<-10, -12>>) @@ (-10) :> Node("GROUP", None, <<-11>>)
       @@ (-11) :> Node("INSTANCE", -2, <<>>) @@ (-12) :> Node("TEXT", -13, <<>>)
       @@ (-2) :> Node("FRAME", -1, <<-13, -15>>) @@ (-13) :> Node("FRAME", -2, <<>>)
       @@ (-15) :> Hidden("TEXT", -1) @@ (-3) :> Hidden("FRAME", None) @@ (-4) :> Node("TEXT", -1, <<>>)]
MCDocuments ==
    {MCFlowFile, [MCFlowFile EXCEPT !.node[-2].visible = FALSE]}

ClientSymmetry == Permutations(Clients)

\* What a careful model says of three screenshots in a row.
MCFlowOnly == {<<Says(1, "entry", None, "a"), Says(2, "step", None, "a"), Says(3, "success", None, "a")>>}
MCFlow     == LET flow == <<Leads(1, 2), Leads(2, 3)>> IN {<<flow, flow, flow>>}
MCFound    == {<<10>>}
=============================================================================
