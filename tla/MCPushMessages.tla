-------------------------- MODULE MCPushMessages ---------------------------
(* Small instances of PushMessages: comments of three users on dz's post.  *)
EXTENDS PushMessages
CONSTANTS dz, u2, u3, k1, k2, k3

MCAuthorOf == [c \in Comment |-> CASE c = k1 -> u2 [] c = k2 -> dz [] c = k3 -> u3]

\* k2 is the author's answer to k1, k3 answers u2, who does not watch.
MCReplyTo == [c \in Comment |-> IF c = k1 THEN NoUser ELSE u2]

\* The author chose nothing, u2 wants nothing of comments, u3 everything.
MCFirstSettings == [u \in User |-> CASE u = dz -> NoSettings
                                     [] u = u2 -> {"system"}
                                     [] u = u3 -> {"system", "reply", "favorite"}]
MCOffered == {{}, {"favorite"}}
MCAttention == <<dz, u3>>
AllAttention == <<dz, u2, u3>>
=============================================================================
