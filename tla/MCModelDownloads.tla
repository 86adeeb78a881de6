-------------------------- MODULE MCModelDownloads --------------------------
(* Two quants of one repository, the second of which is downloaded, and two *)
(* requests at a time.                                                      *)
EXTENDS ModelDownloads
q4 == 1
q8 == 2
MCCaller == {1, 2}
MCServes == <<{<<"pull", q8>>, <<"delete", q8>>, <<"select", q8>>},
              {<<"start", q8>>, <<"status", q4>>, <<"pause", q8>>, <<"delete", q4>>}>>
===============================================================================
