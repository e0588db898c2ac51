-------------------------- MODULE MCWishboneBridge --------------------------
(* Two words of two one-bit bytes; the third bus address aliases the first. *)
EXTENDS WishboneBridge

\* No image, and one that ends inside the second word.
SmallImages == {<< >>, <<0, 1, 1>>}

=============================================================================
