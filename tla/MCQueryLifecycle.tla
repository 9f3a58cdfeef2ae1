-------------------------- MODULE MCQueryLifecycle --------------------------
(***************************************************************************)
(* Two queries of one client.  Each makes two exchanges with a check ahead *)
(* of both, as the reshares of a BO-FSS query of two predicates have: the  *)
(* multiplications between them are left out, and so are the additional    *)
(* registrations of RSSReshare, which MCMultRing's instances check.        *)
(***************************************************************************)
EXTENDS QueryLifecycle

\* One set of servers of each size; the others are the same up to rotation.
MCRefusers == {{}, {0}, {0, 1}, {0, 1, 2}}

=============================================================================
