------------------------------ MODULE MCAcVerify ------------------------------
EXTENDS AcVerify

CONSTANTS c1, c2

MCRows == {<<c1, c2>>, <<c1, Unchecked, c1>>}
=============================================================================
