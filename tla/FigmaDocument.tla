---------------------------- MODULE FigmaDocument ----------------------------
(***************************************************************************)
(* What an import reads in a Figma file (services/figma_import_service.py, *)
(* _resolve_transitions of workers/jobs/import_figma_prototype.py).        *)
(*                                                                         *)
(* A document has pages, in order, and for every node its type, whether it *)
(* is visible, the node its hotspot leads to, if any, and its children.    *)
(***************************************************************************)
EXTENDS SequencesExt

ScreenNodeTypes == {"FRAME", "INSTANCE", "COMPONENT"}

Shown(doc, nodes) == SelectSeq(nodes, LAMBDA n : doc.node[n].visible)

\* What "of" gives for the nodes of a list, one after the other.
InOrder(of, nodes) == FlattenSeq([i \in DOMAIN nodes |-> of[nodes[i]]])

\* Sections are looked into; frames, instances and components are screens.
CollectScreens(doc, nodes) ==
    LET screens[n \in DOMAIN doc.node] ==
          IF doc.node[n].type = "SECTION" THEN InOrder(screens, Shown(doc, doc.node[n].children))
          ELSE IF doc.node[n].type \in ScreenNodeTypes THEN <<n>>
          ELSE <<>>
    IN  InOrder(screens, Shown(doc, nodes))

\* Every visible node below a screen, whatever its type.
CollectElements(doc, nodes) ==
    LET below[n \in DOMAIN doc.node] == <<n>> \o InOrder(below, Shown(doc, doc.node[n].children))
    IN  InOrder(below, Shown(doc, nodes))

ParseDocument(doc) ==
    LET canvases == SelectSeq(doc.pages, LAMBDA p : doc.node[p].type = "CANVAS")
    IN  FlattenSeq([i \in DOMAIN canvases |-> CollectScreens(doc, doc.node[canvases[i]].children)])

ParsedScreens(doc) == ToSet(ParseDocument(doc))

ElementsOf(doc, screen) == CollectElements(doc, doc.node[screen].children)

\* A hotspot counts if it leads to a screen of the import; one of a screen's own
\* node does not.
Hotspots(doc) ==
    UNION {{[from |-> s, trigger |-> e, to |-> doc.node[e].link] :
              e \in {x \in ToSet(ElementsOf(doc, s)) : doc.node[x].link \in ParsedScreens(doc)}} :
           s \in ParsedScreens(doc)}
=============================================================================
