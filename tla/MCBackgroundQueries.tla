---- MODULE MCBackgroundQueries ----
EXTENDS BackgroundQueries
TwoTables == {"letters", "labels"}
Page == {"page"}
PageReads == [q \in Page |-> TwoTables]
OneList == <<[queries |-> <<"page", "page">>, scoped |-> TRUE]>>
TwoQueries == {"page", "count"}
BothRead == [q \in TwoQueries |-> {"letters"}]
TwoLists == <<[queries |-> <<"page">>, scoped |-> TRUE], [queries |-> <<"count">>, scoped |-> TRUE]>>
====
