---------------------------- MODULE MCLifecycle ----------------------------
(* Small projects for TLC.  Plain word 1 has the forms "hoc" and "hōc", plain *)
(* word 2 the form "est", plain word 3 the form "ea"; "abiegno" is in no text. *)
EXTENDS Lifecycle

CONSTANTS hoc, hoclong, est, ea, abiegno

MCForms == {hoc, hoclong, est, ea, abiegno}
MCPlainOf == [w \in MCForms |-> CASE w \in {hoc, hoclong} -> 1
                                  [] w = est -> 2
                                  [] w = ea -> 3
                                  [] w = abiegno -> 0]

\* Texts that share a form and each bring forms of their own.
TextsDistinct == [h \in Headers |-> << <<hoc, est, est>>, <<hoclong, est, hoclong>>,
                                       <<est, ea>> >>[h]]

\* Text 2 brings no form that text 1 does not have.
TextsRepeating == << <<hoc, est>>, <<est, hoc>> >>

\* A text that is only a header and comments.
TextsEmpty == << << >>, <<est>> >>
============================================================================
