------------------------ MODULE MCTranslationStream ------------------------
(* Instances of TranslationStream for TLC.                                 *)
EXTENDS TranslationStream

CONSTANTS A, B, C, m1, m2

At(p) == [provider |-> p, model |-> m1]
\* Routes that change provider at most once: two candidates in either order, two without
\* the active provider, and three of which the second offers another model.
ShortRoutes == {<<At(A), At(C)>>, <<At(C), At(A)>>, <<At(B), At(C)>>,
                <<At(A), [provider |-> B, model |-> m2], At(C)>>}
\* A route of three candidates changes provider twice.
LongRoutes == {<<At(A), At(B), At(C)>>}
============================================================================
