------------------------------ MODULE MCChannel ------------------------------
(* Four messages: one that a read buffer does not hold, a bare header, a short
   one and one of two reads; the first two carry a handle.                  *)
EXTENDS Channel

FourSizes == <<5, 2, 3, 6>>
FirstAndSecond == {1, 2}
=============================================================================
