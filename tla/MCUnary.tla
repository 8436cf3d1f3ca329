------------------------------- MODULE MCUnary -------------------------------
(* A request with two entry points.  "users" returns a list of two users,  *)
(* each with relation posts; each user's posts have relation author.       *)
(* "users" also has relation team, whose value has relation boss; "org"    *)
(* has relation staff.                                                     *)
EXTENDS UnaryHandler

MCReqs  == {"users", "org"}
MCSlots == {"posts1", "posts2", "author1", "author2", "team", "boss", "staff"}

MCUp ==
    [s \in MCSlots |->
        CASE s \in {"posts1", "posts2", "team"} -> "users"
          [] s = "staff"   -> "org"
          [] s = "author1" -> "posts1"
          [] s = "author2" -> "posts2"
          [] s = "boss"    -> "team"]

(* The params pointer and relation of each slot's mask.                    *)
MCKey ==
    [s \in MCSlots |->
        CASE s \in {"posts1", "posts2"}   -> "posts"
          [] s \in {"author1", "author2"} -> "author"
          [] OTHER                        -> s]

(* Clauses at posts and again below them, at author; staff's errors climb  *)
(* to the entry point; those of team and boss fail the request.            *)
FetchOnError ==
    [x \in MCSlots \cup MCReqs |->
        CASE x \in {"posts1", "posts2", "author1", "author2", "org"} -> "catch"
          [] x = "boss" -> "throw"
          [] OTHER -> "unset"]

(* A document with an author and an editor, both users.  The mask of one   *)
(* names their relation posts with a catch clause, the mask of the other   *)
(* without; neither has params, so both have the key (nil, User.posts).    *)
MixedReqs    == {"doc"}
MixedSlots   == {"authorPosts", "editorPosts"}
MixedUp      == [s \in MixedSlots |-> "doc"]
MixedKey     == [s \in MixedSlots |-> "posts"]
MixedOnError ==
    [x \in MixedSlots \cup MixedReqs |->
        IF x = "authorPosts" THEN "catch" ELSE "unset"]
=============================================================================
