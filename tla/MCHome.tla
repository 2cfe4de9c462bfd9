------------------------------- MODULE MCHome -------------------------------
(* Instances of Home: a skeleton with a skill and the settings; a page of the manual
   differs from a skill's command only in that nothing keeps it from being looked at. *)
EXTENDS Home

CONSTANTS c1, c2
OneSkill == <<"web">>
NoPages == <<>>
JustSettings == <<"groow.json">>
Alike == Permutations({c1, c2})
=============================================================================
