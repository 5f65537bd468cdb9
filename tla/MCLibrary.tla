----------------------------- MODULE MCLibrary -----------------------------
(***************************************************************************)
(* An instance of LibraryJobs for TLC.  With pages of one row, two scenes  *)
(* take three pages.                                                       *)
(***************************************************************************)
EXTENDS LibraryJobs, TLC

CONSTANTS s1, s2, i, g, m, p, a, b, c, c2, t, u, n, n2

MCMarkerOf == m :> s1
MCNameOf == p :> "p" @@ a :> "a" @@ b :> "b" @@ t :> "t" @@ u :> "u"
              @@ c :> "c" @@ c2 :> "c" @@ n :> "n" @@ n2 :> "n"
MCIdOrder == <<s1, s2, i, g>>

\* The path of s1 has everything, and a to the right of b.
MCMatching == s1 :> {p, a, b, t, u, n} @@ s2 :> {t, b} @@ i :> {p, u}
                @@ g :> {a, t}
MCStudiosFrom == s1 :> <<a, b>> @@ s2 :> <<b>> @@ i :> <<>> @@ g :> <<a>>

Existing == Objects \cup Markers \cup {p, a, b, t, u}
Beginning(links0, studio0) ==
  [there |-> Existing, links |-> links0, studio |-> studio0,
   primary |-> (m :> t)]

\* At first nothing is linked, or some things are, by hand.
MCBeginnings ==
  {Beginning([o \in Objects |-> {}], [o \in Objects |-> None]),
   Beginning(s1 :> {t, u} @@ s2 :> {u} @@ i :> {} @@ g :> {t},
             s1 :> b @@ s2 :> None @@ i :> a @@ g :> None)}

Files(x, y, z) == [kind |-> "files", ids |-> <<>>, performers |-> x,
                   studios |-> y, tags |-> z]
Specific(list) == [kind |-> "specific", ids |-> list]
Of(k, x) == [of |-> k, id |-> x]

Option(strategy, create) == [strategy |-> strategy, create |-> create]
Identifying(kind, list, st, pe, ta, organize) ==
  [kind |-> kind, ids |-> list, studio |-> st, performers |-> pe, tags |-> ta,
   setOrganized |-> organize]
Defaults == Option("MERGE", FALSE)
Creating == Option("MERGE", TRUE)
Replacing == Option("OVERWRITE", TRUE)
Ignoring == Option("IGNORE", FALSE)

MCInputs ==
  {Files(TRUE, TRUE, TRUE), Files(FALSE, TRUE, FALSE),
   Specific(<<Of("performers", p), Of("studios", Everything), Of("tags", t)>>),
   Specific(<<Of("studios", a), Of("tags", Everything), Of("tags", u)>>),
   Identifying("identify", <<>>, Defaults, Defaults, Creating, FALSE),
   Identifying("identify", <<>>, Defaults, Ignoring, Defaults, TRUE),
   Identifying("ids", <<s2, s1>>, Replacing, Creating, Replacing, TRUE)}

MCAnswers == {{}, {"a", "t"}, {"p", "n"}, {"c", "u", "n"}}
=============================================================================
