----------------------------- MODULE MCWhereQuery -----------------------------
EXTENDS WhereQuery

\* Posts with an author and a reviewer, users with a team, comments on posts.
One(e, c) == [type |-> "one", entity |-> e, column |-> c]
Many(e, c) == [type |-> "many", entity |-> e, column |-> c]
MCSchema == [
  posts |-> [author |-> One("users", "authorId"), reviewer |-> One("users", "reviewerId"),
             comments |-> Many("comments", "postId")],
  users |-> [team |-> One("teams", "teamId")],
  comments |-> [post |-> One("posts", "postId")],
  teams |-> <<>>]
MCField == [posts |-> {"n", "authorId", "reviewerId"}, users |-> {"n", "teamId"},
            comments |-> {"n", "postId"}, teams |-> {"n"}]
MCWordy == [posts |-> {"id", "authorId", "reviewerId"}, users |-> {"id", "teamId"},
            comments |-> {"id", "postId"}, teams |-> {"id"}]
MCNotNull == [posts |-> {"id"}, users |-> {"id", "n"}, comments |-> {"id", "n"}, teams |-> {"id", "n"}]

Post(i, n, a, r) == [id |-> i, n |-> n, authorId |-> a, reviewerId |-> r]
User(i, n, t) == [id |-> i, n |-> n, teamId |-> t]
Comment(i, n, p) == [id |-> i, n |-> n, postId |-> p]
Team(i, n) == [id |-> i, n |-> n]

MCDatabases == {
  [posts |-> {Post(1, 1, u, Null), Post(2, n, 12, 11)},
   users |-> {User(11, 1, 21), User(12, 2, Null)},
   comments |-> {Comment(31, 1, 1), Comment(32, 2, 1)},
   teams |-> {Team(21, 1)}] : u \in {11, Null}, n \in {2, Null}}

T(k, op, vs) == [key |-> k, test |-> (op :> vs), sub |-> <<>>]
In(k, c) == [key |-> k, test |-> <<>>, sub |-> <<c>>]
Both(cs) == [key |-> "$and", test |-> <<>>, sub |-> cs]
Either(cs) == [key |-> "$or", test |-> <<>>, sub |-> cs]

MCCondition == <<
  <<T("n", "plain", {1})>>,
  <<T("n", "eq", {Null})>>,
  <<T("n", "not", {1})>>,
  <<T("n", "in", {1, 2})>>,
  <<[key |-> "n", test |-> [gte |-> {1}, lt |-> {2}], sub |-> <<>>]>>,
  <<T("authorId", "not", {Null})>>,
  <<T("authorId", "gte", {11})>>,
  <<T("id", "notIn", {2})>>,
  <<In("author", <<T("n", "plain", {1})>>)>>,
  <<In("author", <<T("n", "lte", {1}), In("team", <<T("n", "gt", {0})>>)>>)>>,
  <<In("reviewer", <<T("n", "notIn", {2})>>)>>,
  <<In("reviewer", <<T("n", "notIn", {2, Null})>>)>>,
  <<In("author", <<T("teamId", "plain", {Null})>>)>>,
  <<In("comments", <<T("n", "gt", {1})>>)>>,
  <<In("comments", <<>>)>>,
  <<Either(<< <<T("n", "plain", {2})>>, <<In("author", <<T("n", "plain", {1})>>)>> >>)>>,
  <<Both(<< <<T("n", "lt", {2})>>, <<Either(<< <<In("author", <<T("n", "eq", {2})>>)>>, <<T("authorId", "plain", {11})>> >>)>> >>)>>,
  <<Both(<< <<In("author", <<In("team", <<T("n", "plain", {1})>>)>>)>>, <<In("author", <<T("n", "plain", {1})>>)>> >>)>>
>>

MCInserted == {
  [row |-> Post(3, n, a, 12), missing |-> {}] : n \in {1, Null}, a \in {11, 12}} \cup {
  [row |-> Post(3, 1, 11, 12), missing |-> {"n"}]}
MCUpdated ==
  {[res |-> "posts", row |-> Post(i, n, a, r)] : i \in {1, 2}, n \in {1, 2, Null}, a \in {11, Null}, r \in {12}}
    \cup {[res |-> "users", row |-> User(11, 2, 21)], [res |-> "comments", row |-> Comment(31, 2, 2)]}
=============================================================================
