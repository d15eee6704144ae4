--------------------------- MODULE MCRedirections ---------------------------
(***************************************************************************)
(* Two files, and the redirections of the comment at the head of           *)
(* redirections.ts: each alone, and the pairs and triples that scripts use *)
(* to send both streams somewhere or to exchange them.                     *)
(***************************************************************************)
EXTENDS Redirections

To(op, fd, to) == Redirection(op, fd, to, 0, FALSE)
On(op, fd, n) == Redirection(op, fd, "", n, FALSE)
Named(op, to, n) == Redirection(op, 0, to, n, TRUE)

OneByOne ==
  {To(">", 0, "f"), To(">>", 0, "f"), To(">|", 0, "f"),
   To(">>", 2, "g"), To("&>", 0, "f"), To(">&", 0, "g"), To(">&", 1, "f"),
   To(">", 0, "dir"), To(">", 2, "dir"), To(">", 0, "/dev/stderr"), To(">", 2, "/dev/stdout"),
   On("dup", 0, 2), On("dup", 2, 1), On("dup", 1, 1), On("dup", 0, 3), On("dup", 2, 3),
   On("dup", 0, 4), On("move", 0, 3), On("move", 3, 1), On("close", 1, 0),
   Named(">", "f", 0)}

Pairs ==
  {<<To(">", 0, "f"), On("dup", 2, 1)>>, <<On("dup", 2, 1), To(">", 0, "f")>>,
   <<To(">", 0, "f"), To(">>", 2, "g")>>, <<To(">", 0, "f"), To(">", 2, "f")>>,
   <<To(">", 0, "f"), To(">", 0, "g")>>,
   <<On("dup", 3, 1), On("dup", 1, 2), On("dup", 2, 3)>>}

MCLists == {<<>>} \cup {<<r>> : r \in OneByOne} \cup Pairs

PlainLists == {<<>>}

MCBareLists == {<<To(">", 0, "f")>>, <<To(">>", 0, "g")>>, <<On("dup", 2, 1)>>}

MCCompoundLists ==
  {<<>>, <<To(">", 0, "f")>>, <<To(">>", 2, "g")>>, <<To("&>", 0, "f")>>, <<To(">", 0, "dir")>>,
   <<On("dup", 0, 2)>>, <<On("dup", 2, 1)>>, <<Named(">", "f", 0)>>,
   <<To(">", 0, "f"), To(">", 2, "g")>>}

MCExecLists ==
  {<<To(">", 0, "f")>>, <<To(">", 3, "f")>>, <<To(">>", 2, "g")>>, <<To(">>", 3, "g")>>,
   <<To("&>", 0, "g")>>, <<On("dup", 3, 1)>>, <<On("dup", 2, 1)>>, <<On("dup", 1, 2)>>,
   <<On("move", 1, 3)>>, <<On("close", 3, 0)>>, <<Named(">>", "g", 0)>>,
   <<Named("dup", "", 3)>>, <<Redirection("close", 4, "", 0, TRUE)>>}
=============================================================================
