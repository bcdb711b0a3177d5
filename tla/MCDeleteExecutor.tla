------------------------- MODULE MCDeleteExecutor -------------------------
(* Values of the constants of DeleteExecutor for TLC: authors, their posts,  *)
(* which may follow one another, and an image of a post, credited to an      *)
(* author.                                                                   *)
EXTENDS DeleteExecutor

CONSTANTS a, p, q, i

Entity == a :> "Author" @@ p :> "Post" @@ q :> "Post" @@ i :> "Image"
PositionOf == [author |-> 1, next |-> 2, image |-> 3, credit |-> 4]
OwnerOf == [author |-> "Post", next |-> "Post", image |-> "Post", credit |-> "Image"]
TargetOf == [author |-> "Author", next |-> "Post", image |-> "Image", credit |-> "Author"]

Kinds(author, next, image, credit) ==
    [author |-> author, next |-> next, image |-> image, credit |-> credit]

SomeSchemas ==
    { Kinds("cascade", "cascade", "setNull", "cascade"),
      Kinds("cascade", "setNull", "cascade", "restrict"),
      Kinds("setNull", "cascade", "restrict", "setNull"),
      Kinds("restrict", "restrict", "setNull", "cascade") }

(* p has the author a and no image and does not follow itself; the other     *)
(* relations are filled in every way.  q may be missing, and at most one row *)
(* is one the identity may not change.                                       *)
SomeDatabases ==
    LET with(author, next, image, credit) ==
            [c \in Cells |-> CASE c[2] = "author" -> author[c[1]]
                              [] c[2] = "next" -> next[c[1]]
                              [] c[2] = "image" -> image[c[1]]
                              [] OTHER -> credit]
        authors == {f \in [{p, q} -> {a, NoRow}] : f[p] = a}
        nexts == {f \in [{p, q} -> {p, q, NoRow}] : f[p] # p}
        images == {f \in [{p, q} -> {i, NoRow}] : f[p] = NoRow}
        refs == {with(f, g, h, x) : f \in authors, g \in nexts, h \in images, x \in {a, NoRow}}
        dbs == {[rows |-> rows, ref |-> ref, allowed |-> rows \ forbidden] :
                   rows \in {Rows, Rows \ {q}}, ref \in refs, forbidden \in {{}, {q}, {i}}}
    IN  {db \in dbs : Sound(db)}

Delete(r, checked) == [row |-> r, checked |-> checked]
Mutation(deletes_, deferred_) == [deletes |-> deletes_, deferred |-> deferred_]

SomeMutations ==
    { Mutation(<<Delete(a, FALSE)>>, FALSE),
      Mutation(<<Delete(p, FALSE), Delete(a, FALSE)>>, TRUE),
      Mutation(<<Delete(a, FALSE), Delete(p, TRUE)>>, FALSE),
      Mutation(<<Delete(q, TRUE), Delete(i, FALSE)>>, FALSE) }
=============================================================================
