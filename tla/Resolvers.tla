----------------------------- MODULE Resolvers -----------------------------
(***************************************************************************)
(* A client that gets an object and then one of its fields.  The row of    *)
(* the object is read first; the field's resolver has it, and looks the    *)
(* rest up in a "read transaction", which begins nothing: each of its      *)
(* statements sees what was committed before.  Between any two of these    *)
(* steps other clients' mutations change the library.                      *)
(***************************************************************************)
EXTENDS Lookups, Mutations

VARIABLES
  readings,  \* what the client may ask for: <<kind, id, field>>
  object,    \* what it has asked for, with the row: [kind, row, field], or Null
  pending,   \* rows from which the resolver has yet to look something up, or Null
  reply,     \* [answer] of the field, or Null
  since      \* history: what the library has held since the row was read

readerVars == <<readings, object, pending, reply, since>>
resolverVars == <<readerVars, mutationVars>>

\* Fields whose resolver has a lookup for each row of another one.
Listed ==
  [movies |-> [list |-> "movies_scenes", kind |-> "movies", column |-> "movie_id"],
   scene_marker_tags |-> [list |-> "scene_markers", kind |-> "tags", column |-> "primary_tag_id"]]

OfListed == object # Null /\ object.kind = "scenes" /\ object.field \in DOMAIN Listed

----------------------------------------------------------------------------
FindObject ==
  /\ object = Null
  /\ \E reading \in readings : \E row \in Rows(library, reading[1]) :
       /\ row.id = reading[2]
       /\ object' = [kind |-> reading[1], row |-> row, field |-> reading[3]]
  /\ since' = {library}
  /\ UNCHANGED <<readings, pending, reply, mutationVars>>

ResolveField ==
  /\ object # Null /\ reply = Null /\ ~OfListed
  /\ reply' = [answer |-> Fields(library, object.kind, object.row)[object.field]]
  /\ UNCHANGED <<readings, object, pending, since, mutationVars>>

\* GetMovies, and the markers of SceneMarkerTags.
ListRows ==
  /\ OfListed /\ reply = Null /\ pending = Null
  /\ LET rows == Rows(library, Listed[object.field].list)
     IN pending' = [rest |-> {r \in rows : Column(r, "scene_id") = object.row.id}, found |-> {}]
  /\ UNCHANGED <<readings, object, reply, since, mutationVars>>

\* A movie that is gone must not be null in the answer; of a tag that is gone the
\* resolver asks the id.
LookUp ==
  /\ pending # Null /\ reply = Null
  /\ \E row \in pending.rest :
       LET id == row[Listed[object.field].column]
       IN IF Find(library, Listed[object.field].kind, id) = Null
          THEN reply' = [answer |-> Error] /\ UNCHANGED pending
          ELSE /\ pending' = [rest |-> pending.rest \ {row}, found |-> pending.found \cup {id}]
               /\ UNCHANGED reply
  /\ UNCHANGED <<readings, object, since, mutationVars>>

AnswerList ==
  /\ pending # Null /\ reply = Null /\ pending.rest = {}
  /\ reply' = [answer |-> pending.found]
  /\ UNCHANGED <<readings, object, pending, since, mutationVars>>

Read == FindObject \/ ResolveField \/ ListRows \/ LookUp \/ AnswerList

MutateMeanwhile ==
  /\ reply = Null
  /\ MutationsNext
  /\ since' = IF object = Null THEN {} ELSE since \cup {library'}
  /\ UNCHANGED <<readings, object, pending, reply>>

\* A session is a library, what clients may do to it, and what one may ask meanwhile.
ResolversInit ==
  /\ MutationsInit
  /\ \E session \in Sessions :
       session.library = library /\ session.requests = requests /\ readings = session.readings
  /\ object = Null /\ pending = Null /\ reply = Null /\ since = {}

ResolversNext == Read \/ MutateMeanwhile

----------------------------------------------------------------------------
(* What is asked of resolvers. *)

\* Fields that are about other objects, when they are resolved at once.
Linking(kind) ==
  {"scene_markers", "galleries", "studio", "tags", "performers", "images", "cover", "scenes",
   "movies", "child_studios", "parent_studio", "parents", "children"} \cup DOMAIN CountOf

AllMean(d, kind, row, fields) ==
  \A name \in DOMAIN fields \cap Linking(kind) : FieldMeans(d, kind, row, name, fields[name])

\* The fields of all objects tell each link from both of its ends alike, and their
\* numbers are those of what the lists have; scenes that look alike are told in sets
\* that are as large as they can be and no larger (resolver_model_*.go; FindBy... and
\* CountBy... of pkg/sqlite, image/query.go, gallery/query.go; utils/phash.go:16-53).
FieldsMean ==
  object = Null =>
    /\ \A kind \in DOMAIN Lists : \A row \in Rows(library, kind) :
         AllMean(library, kind, row, Fields(library, kind, row))
    /\ \A distance \in 0..FarthestLikeness :
         LikenessMeans(library, distance, FindDuplicateScenes(library, distance))

\* What the row of the object says of another one, which is not there any more.
ReferredIsGone(column, to) ==
  Column(object.row, column) # Null /\ \E e \in since : object.row[column] \notin Ids(e, to)

ListedIn(d) ==
  {r[Listed[object.field].column] :
     r \in {x \in Rows(d, Listed[object.field].list) : Column(x, "scene_id") = object.row.id}}

\* However the library changes meanwhile, a client is told nothing of a field that was
\* not so at some moment since the object was read, but that there is no studio when the
\* one that the object had is gone; and a resolver fails only if what it asks for is
\* gone, or for a marker without a scene (withReadTxn in internal/api;
\* resolver_model_scene.go:145-205, resolver.go:184-244, resolver_model_scene_marker.go:12-38).
RepliesWereTrue ==
  reply # Null =>
    LET answer == reply.answer
        kind == object.kind
        field == object.field
        Was(d) ==
          CASE OfListed -> answer = ListedIn(d)
            [] field = "scene" -> [id |-> object.row.id, scene_id |-> answer] \in
                                    {[id |-> m.id, scene_id |-> m.scene_id] : m \in Rows(d, kind)}
            [] field = "primary_tag" -> [id |-> object.row.id, primary_tag_id |-> answer] \in
                                    {[id |-> m.id, primary_tag_id |-> m.primary_tag_id] : m \in Rows(d, kind)}
            [] OTHER -> FieldMeans(d, kind, object.row, field, answer)
        HasGone ==
          CASE OfListed -> \E d, e \in since : ~(ListedIn(d) \subseteq Ids(e, Listed[field].kind))
            [] field = "scene" -> Column(object.row, "scene_id") = Null \/ ReferredIsGone("scene_id", "scenes")
            [] field = "primary_tag" -> ReferredIsGone("primary_tag_id", "tags")
            [] OTHER -> FALSE
    IN CASE answer = Error -> HasGone
         [] answer = Null -> \/ ReferredIsGone(IF field = "parent_studio" THEN "parent_id" ELSE "studio_id", "studios")
                             \/ \E d \in since : Was(d)
         [] OTHER -> \E d \in since : Was(d)
=============================================================================
