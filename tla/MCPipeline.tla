----------------------------- MODULE MCPipeline -----------------------------
(* Requests for Pipeline: every path that some route spells out, one for    *)
(* each route with a parameter, and paths no route knows.                   *)
EXTENDS Pipeline

MCPaths ==
  {path \in {Routes[i].path : i \in DOMAIN Routes} :
     {":id", "*"} \cap {path[i] : i \in DOMAIN path} = {}}
  \cup { <<"api", "places", "42">>, <<"api", "places", "42", "photos">>,
         <<"api", "photos", "42">>, <<"api", "photos", "42", "like">>,
         <<"api", "photos", "42", "comments">>, <<"api", "photos", "">>,
         <<"static", "uploads", "a.jpg">>, <<"static", "">>, <<"static">>,
         <<"api", "nothing">> }
=============================================================================
