-------------------------- MODULE MCSubmissionServer --------------------------
(* Two request threads race; one name is enough, since ids differ by their   *)
(* index unless an index is reused.  Of the forms two are accepted, a source *)
(* and a library.  Two indices and two restarts let a submission follow,     *)
(* after a crash, on one that was stored and on one that was lost; one write *)
(* may fail.                                                                 *)
EXTENDS SubmissionServer

Form(language, extension) == [slug |-> "hover", complete |-> TRUE, abi |-> 1,
                              language |-> language, extension |-> extension]
MCForms == {Form("c++", ".txt"), Form("", ".so"), Form("rust", ".c"),
            [Form("c", ".c") EXCEPT !.complete = FALSE],
            [Form("c", ".c") EXCEPT !.abi = 2]}
===============================================================================
