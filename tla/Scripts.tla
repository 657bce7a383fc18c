------------------------------ MODULE Scripts ------------------------------
(***************************************************************************)
(* What can be said of a script of the catalogues before it is carried     *)
(* out: which nodes it has, how they are nested, what may come first and   *)
(* what comes after what.  The theorems about Operations rest on           *)
(* conditions in these words, which every script is held against.          *)
(***************************************************************************)
EXTENDS Calls, Naturals

Elements(script) == {script[i] : i \in DOMAIN script}

\* No node of a catalogue is nested deeper.
Depth == 12

\* The nodes of a script, however deep.
Nodes(script) ==
    LET within[depth \in 0..Depth] ==
          IF depth = 0
          THEN Elements(script)
          ELSE LET above == within[depth - 1]
               IN above \cup
                    UNION {Elements(n.body) \cup Elements(n.other) : n \in above}
    IN within[Depth]

Requests == {"ask", "change", "drop", "make"}

\* The requests that leave something behind.
Changes == Requests \ {"ask"}

Words == Requests \cup {"either", "each", "try", "raise", "reraise", "tell",
                        "forget"}

\* The nodes whose bodies and handlers are scripts of these nodes.
ScriptNode(nodes) == [
    does: Words, what: STRING, once: BOOLEAN, unread: BOOLEAN,
    kinds: SUBSET Errors, body: Seq(nodes), other: Seq(nodes)]

\* Those of these nodes that do one of these things, themselves or within.
Deeds(n) == {n.does} \cup (IF n.unread THEN {"forget"} ELSE {})
Having(nodes, deeds) ==
    {n \in nodes : \E m \in Nodes(<<n>>) : Deeds(m) \cap deeds # {}}

-----------------------------------------------------------------------------
(* What comes first                                                        *)

Leads(script, nodes) == script # <<>> /\ Head(script) \in nodes

\* These nodes, and the blocks that begin with one of them whatever happens.
Opening(all, nodes) ==
    nodes \cup
      {n \in all : \/ n.does = "try" /\ Leads(n.body, nodes)
                   \/ /\ n.does = "either"
                      /\ Leads(n.body, nodes) /\ Leads(n.other, nodes)}

\* Four blocks deep, which is what the catalogues need.
Twice(all, nodes) == Opening(all, Opening(all, nodes))
Beginning(all, nodes) == Twice(all, Twice(all, nodes))

\* So does the script, or it does after a login that may be left out.
Opened(script, nodes) ==
    \/ Leads(script, nodes)
    \/ /\ script # <<>>
       /\ Head(script).does = "either" /\ Head(script).other = <<>>
       /\ Leads(Head(script).body, nodes) /\ Leads(Tail(script), nodes)

-----------------------------------------------------------------------------
(* Handlers                                                                *)

\* Whatever goes wrong in it is told.
Tells(n) == n.does = "try" /\ n.kinds = Errors /\ n.other = Tell

\* The nodes of a script that are not within such a block, and those that are.
Exposed(script) ==
    LET within[depth \in 0..Depth] ==
          IF depth = 0
          THEN Elements(script)
          ELSE LET above == within[depth - 1]
               IN above \cup
                    UNION {(IF Tells(n) THEN {} ELSE Elements(n.body))
                             \cup Elements(n.other) : n \in above}
    IN within[Depth]

Covered(script) ==
    UNION {Nodes(n.body) : n \in {m \in Nodes(script) : Tells(m)}}

\* What deals with a refusal: a word of it in the result, or an exception among
\* these.
Facing(nodes, kinds) ==
    {n \in nodes : \/ n.does \in {"tell", "reraise"}
                   \/ n.does = "raise" /\ n.kinds \subseteq kinds}

\* The handlers of such an exception begin by dealing with it.
Hear(nodes, kinds) ==
    \A n \in nodes :
      n.does = "try" /\ n.kinds \cap kinds # {} =>
        Leads(n.other, Beginning(nodes, Facing(nodes, kinds)))

-----------------------------------------------------------------------------
(* What comes after what                                                   *)

\* After one of the first come none of the others.
Never(script, first, others) ==
    \A i, j \in DOMAIN script :
      i < j => script[i] \notin first \/ script[j] \notin others

\* So too within the blocks of a script, and from one pass of a loop to the
\* next.
NeverWithin(nodes, first, others) ==
    \A n \in nodes :
      /\ Never(n.body, first, others)
      /\ Never(n.other, first, others)
      /\ n.does = "each" => n \notin first \/ n \notin others
      /\ n.does = "try" => \/ Elements(n.body) \cap first = {}
                           \/ Elements(n.other) \cap others = {}

NoForget(script) == \A i \in DOMAIN script : script[i].does # "forget"

\* A failure is forgotten first thing in the handler of a block that begins
\* with a read and writes nothing.
Guards(n, reads, writers) ==
    /\ NoForget(n.body)
    /\ \/ NoForget(n.other)
       \/ /\ n.does = "try"
          /\ n.other # <<>> /\ NoForget(Tail(n.other))
          /\ Elements(n.body) \cap writers = {}
          /\ Opened(n.body, reads)

=============================================================================
