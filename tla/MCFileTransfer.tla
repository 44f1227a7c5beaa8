--------------------------- MODULE MCFileTransfer ---------------------------
(***************************************************************************)
(* An instance of FileTransfer for TLC.  Two directories of one name, one  *)
(* with a subdirectory, a read-only one and an unsafe name, and a file, a  *)
(* link to a directory and a directory with a link in it.                  *)
(***************************************************************************)
EXTENDS FileTransfer

CONSTANTS tree, sub, leaf, other, otherleaf, otherdot, single, link, linked, inlink

Nodes == {tree, sub, leaf, other, otherleaf, otherdot, single, link, linked, inlink}
Types == [n \in Nodes |-> CASE n \in {tree, sub, other, linked} -> "dir"
                             [] n \in {link, inlink} -> "link"
                             [] OTHER -> "file"]
Bases == [n \in Nodes |-> CASE n \in {tree, other} -> "d"
                             [] n = sub -> "s"
                             [] n \in {leaf, otherleaf} -> "f"
                             [] n = otherdot -> ".."
                             [] n = single -> "f"
                             [] OTHER -> "l"]
Listing == [n \in Nodes |-> CASE n = tree -> <<leaf, sub>>
                               [] n = sub -> <<single>>
                               [] n = other -> <<otherleaf>>
                               [] n = link -> <<otherleaf, otherdot>>
                               [] n = linked -> <<inlink, single>>
                               [] OTHER -> <<>>]

Src(n) == [node |-> n, host |-> "local", user |-> "local"]
Rem(n, u) == [node |-> n, host |-> "h1", user |-> u]
Here == [host |-> "local", user |-> "local"]
There == [host |-> "h1", user |-> "u1"]
Uploads == [srcs: {<<Src(tree)>>, <<Src(link)>>, <<Src(linked)>>, <<Src(tree), Src(other)>>,
                   <<Src(single), Src(leaf)>>, <<Src(tree), Rem(single, "u1")>>},
            dst: {There}]
Downloads == [srcs: {<<Rem(tree, "u1")>>, <<Rem(link, "u1")>>, <<Rem(linked, "u1")>>,
                     <<Rem(tree, "u1"), Rem(other, "u2")>>, <<Rem(single, "u1"), Rem(leaf, "u1")>>,
                     <<Src(tree), Rem(single, "u1")>>, <<Src(single)>>,
                     <<Rem(single, "u1"), [Rem(leaf, "u1") EXCEPT !.host = "h2"]>>},
              dst: {Here}]
Jobs == Uploads \union Downloads

Old(kind) == [kind |-> kind, from |-> NoNode, data |-> "whole", time |-> NoNode, writable |-> TRUE]
EmptyDir == <<>> :> Old("dir")
Destinations == {<<>>, <<>> :> Old("file"), EmptyDir,
                 EmptyDir @@ (<<"d">> :> Old("file")),
                 EmptyDir @@ (<<"d">> :> Old("dir")) @@ (<<"d", "f">> :> Old("file")),
                 EmptyDir @@ (<<"f">> :> Old("dir"))}
=============================================================================
