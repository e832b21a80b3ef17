------------------------- MODULE MCFsWebDavHandler -------------------------
(***************************************************************************)
(* Instances of FsWebDavHandler: the base directory "/" holds a directory  *)
(* "d" with a file "f" in it.                                              *)
(***************************************************************************)
EXTENDS FsWebDavHandler, TLC

MCPath == {"/", "d", "f"}
MCParent == ("/" :> None) @@ ("d" :> "/") @@ ("f" :> "d")
MCInitFs == ("/" :> Directory) @@ ("d" :> Directory) @@ ("f" :> File(<<"a">>))

Threads == Permutations(Thread)

Rq(method, path) ==
  [method |-> method, path |-> path, body |-> "none", depth |-> "infinity",
   data |-> <<>>, chunked |-> FALSE, actions |-> <<>>]
Upload(path, data, chunked) ==
  [Rq("PUT", path) EXCEPT !.body = "ok", !.data = data, !.chunked = chunked]
Patch(path, actions) == [Rq("PROPPATCH", path) EXCEPT !.body = "ok", !.actions = actions]
Update(x, v) == [prop |-> x, val |-> v]

Reads == {Rq("OPTIONS", "d"), Rq("LOCK", "d"), Rq("UNLOCK", "d"), Rq("GET", "f"),
          Rq("PROPFIND", "d"), [Rq("PROPFIND", "/") EXCEPT !.body = "ok"],
          Rq("COPY", "f"), Rq("MOVE", "f")}

Writes == {Upload("f", <<"a", "a">>, FALSE), Upload("f", <<"b">>, TRUE),
           Rq("DELETE", "f"), Rq("DELETE", "d"), Rq("MKCOL", "d"), Rq("MKCOL", "f"),
           Patch("f", <<Update("x", "1"), Update("y", None)>>),
           Patch("f", <<Update("x", "1"), Update("dav", "1")>>)}

MCRequest == Writes \cup Reads

\* Two updates of the same two properties.
Patches == {Patch("f", <<Update("x", v), Update("y", v)>>) : v \in {"1", "2"}}
=============================================================================
