------------------------------ MODULE Clients ------------------------------
(***************************************************************************)
(* Clients of the API: those that mutate the library, one that reads an    *)
(* object and one of its fields meanwhile, and one that has a query under  *)
(* way.  Some queries are asked of databases of their own, which hold what *)
(* mutations would take long to arrive at.                                 *)
(***************************************************************************)
EXTENDS Queries, Resolvers

CONSTANT QueriesFor(_)  \* bound: what clients may ask for -> queries under way meanwhile

clientVars == <<queryVars, resolverVars>>

\* A session in which nobody but the one that queries does anything.
QueryAlone ==
  /\ library = <<>> /\ requests = {} /\ readings = {}
  /\ input = NoInput /\ hooks = <<>> /\ made = 0
  /\ object = Null /\ pending = Null /\ reply = Null /\ since = {}

NoQuery == [kind |-> "none", levels |-> <<>>, search |-> NoSearch]

\* A query of the library itself, or none.
QueryOfLibrary ==
  /\ db = library /\ read = library
  /\ total = Null /\ ids = {}
  /\ \/ asked \in QueriesFor(requests) /\ phase = "asked" /\ seen = {library}
     \/ asked = NoQuery /\ phase = "answered" /\ seen = {}

ClientsInit ==
  \/ QueryInit /\ QueryAlone
  \/ ResolversInit /\ QueryOfLibrary

QueryStep == (Step \/ (library = <<>> /\ Change)) /\ UNCHANGED resolverVars

\* The library changes under the query.
OthersStep ==
  /\ library # <<>>
  /\ ResolversNext
  /\ db' = library'
  /\ seen' = IF phase \in {"made", "counted", "selected"} THEN seen \cup {library'}
             ELSE IF phase = "asked" THEN {library'} ELSE seen
  /\ read' = IF phase = "asked" THEN library' ELSE read
  /\ UNCHANGED <<asked, phase, total, ids>>

ClientsNext == QueryStep \/ OthersStep

ClientsSpec == ClientsInit /\ [][ClientsNext]_clientVars
=============================================================================
