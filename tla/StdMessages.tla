---------------------------- MODULE StdMessages ----------------------------
(***************************************************************************)
(* The message definitions under std_msgs/: what roscpp generated from the *)
(* .msg files, one header each.  A ROS peer of this node announces the     *)
(* DataType, the MD5Sum and the Definition of its header in the TCPROS     *)
(* connection header, and its messages on the wire are the fields in the   *)
(* order of the Serializer.  (The node itself does not include these       *)
(* headers: it has the table of api.h, which is in TcpRos.)                *)
(*                                                                         *)
(* A definition stands for one header: its DataType, its MD5Sum, how many  *)
(* characters its Definition has, whether it claims IsFixedSize, and the   *)
(* wire types of its fields.  Printers and constructors are left out.      *)
(***************************************************************************)
EXTENDS Naturals, Sequences

Message(type, md5sum, definition, fixed, fields) ==
  [type |-> type, md5sum |-> md5sum, definition |-> definition, fixed |-> fixed, fields |-> fields]

\* The multi-arrays differ in their element; all repeat the text of the
\* layout's definition.
MultiArray(type, md5sum, vector) ==
  Message(type, md5sum, 1488, FALSE, <<"std_msgs/MultiArrayLayout", vector>>)

-----------------------------------------------------------------------------

Bool == Message("std_msgs/Bool", "8b94c1b53db61fb6aed406028ad6332a", 10, TRUE, <<"uint8">>)
Byte == Message("std_msgs/Byte", "ad736a2e8818154c487bb80fe42ce43b", 10, TRUE, <<"int8">>)
ByteMultiArray == MultiArray("std_msgs/ByteMultiArray", "70ea476cbcfd65ac2f68f3cda1e891fe", "int8[]")
Char == Message("std_msgs/Char", "1bf77f25acecdedba0e224b162199717", 10, TRUE, <<"uint8">>)
ColorRGBA == Message("std_msgs/ColorRGBA", "a29a96539573343b1310c73607334b00", 40, TRUE, <<"float32", "float32", "float32", "float32">>)
Duration == Message("std_msgs/Duration", "3e286caf4241d664e55f3ad380e2ae46", 14, TRUE, <<"duration">>)
Empty == Message("std_msgs/Empty", "d41d8cd98f00b204e9800998ecf8427e", 1, TRUE, <<>>)
Float32 == Message("std_msgs/Float32", "73fcbf46b49191e672908e50842a83d4", 13, TRUE, <<"float32">>)
Float32MultiArray == MultiArray("std_msgs/Float32MultiArray", "6a40e0ffa6a17a503ac3f8616991b1f6", "float32[]")
Float64 == Message("std_msgs/Float64", "fdb28210bfa9d7c91146260178d9a584", 13, TRUE, <<"float64">>)
Float64MultiArray == MultiArray("std_msgs/Float64MultiArray", "4b7d974086d4060e7db4613a7e6c3ba4", "float64[]")
Header == Message("std_msgs/Header", "2176decaecbce78abc3b96ef049fabed", 583, FALSE, <<"uint32", "time", "string">>)
Int16 == Message("std_msgs/Int16", "8524586e34fbd7cb1c08c5f5f1ca0e57", 11, TRUE, <<"int16">>)
Int16MultiArray == MultiArray("std_msgs/Int16MultiArray", "d9338d7f523fcb692fae9d0a0e9f067c", "int16[]")
Int32 == Message("std_msgs/Int32", "da5909fbe378aeaf85e547e830cc1bb7", 11, TRUE, <<"int32">>)
Int32MultiArray == MultiArray("std_msgs/Int32MultiArray", "1d99f79f8b325b44fee908053e9c945b", "int32[]")
Int64 == Message("std_msgs/Int64", "34add168574510e6e17f5d23ecc077ef", 11, TRUE, <<"int64">>)
Int64MultiArray == MultiArray("std_msgs/Int64MultiArray", "54865aa6c65be0448113a2afc6a49270", "int64[]")
Int8 == Message("std_msgs/Int8", "27ffa0c9c4b8fb8492252bcad9e5c57b", 10, TRUE, <<"int8">>)
Int8MultiArray == MultiArray("std_msgs/Int8MultiArray", "d7c1af35a1b4781bbe79e03dd94b7c13", "int8[]")
MultiArrayDimension == Message("std_msgs/MultiArrayDimension", "4cd0c83a8683deae40ecdac60e53bfa8", 142, FALSE, <<"string", "uint32", "uint32">>)
MultiArrayLayout == Message("std_msgs/MultiArrayLayout", "0fed2a11c13e11c5571b4e2a995a91a3", 1165, FALSE, <<"MultiArrayDimension[]", "uint32">>)
String == Message("std_msgs/String", "992ce8a1687cec8c8bd883ec73ca41d1", 12, FALSE, <<"string">>)
Time == Message("std_msgs/Time", "cd7166c74c552c311fbcc2fe5a7bc289", 10, TRUE, <<"time">>)
UInt16 == Message("std_msgs/UInt16", "1df79edf208b629fe6b81923a544552d", 12, TRUE, <<"uint16">>)
UInt16MultiArray == MultiArray("std_msgs/UInt16MultiArray", "52f264f1c973c4b73790d384c6cb4484", "uint16[]")
UInt32 == Message("std_msgs/UInt32", "304a39449588c7f8ce2df6e8001c5fce", 12, TRUE, <<"uint32">>)
UInt32MultiArray == MultiArray("std_msgs/UInt32MultiArray", "4d6a180abc9be191b96a7eda6c8a233d", "uint32[]")
UInt64 == Message("std_msgs/UInt64", "1b2a79973e8bf53d7b53acb71299cb57", 12, TRUE, <<"uint64">>)
UInt64MultiArray == MultiArray("std_msgs/UInt64MultiArray", "6088f127afb1d6c72927aa1247e945af", "uint64[]")
UInt8 == Message("std_msgs/UInt8", "7c8164229e7d2c17eb95e9231617fdee", 11, TRUE, <<"uint8">>)
UInt8MultiArray == MultiArray("std_msgs/UInt8MultiArray", "82373f1612381bb6ee473b5cd6f5d89c", "uint8[]")

-----------------------------------------------------------------------------

Catalogue ==
  {Bool, Byte, ByteMultiArray, Char, ColorRGBA, Duration, Empty, Float32,
   Float32MultiArray, Float64, Float64MultiArray, Header, Int16,
   Int16MultiArray, Int32, Int32MultiArray, Int64, Int64MultiArray, Int8,
   Int8MultiArray, MultiArrayDimension, MultiArrayLayout, String, Time,
   UInt16, UInt16MultiArray, UInt32, UInt32MultiArray, UInt64,
   UInt64MultiArray, UInt8, UInt8MultiArray}

StdTypes == {m.type : m \in Catalogue}

\* The header of a type.
HeaderOf(t) == CHOOSE m \in Catalogue : m.type = t

\* Wire types that are not messages: those of one size, and the vectors.
FixedTypes == {"uint8", "int8", "uint16", "int16", "uint32", "int32", "uint64", "int64",
               "float32", "float64", "time", "duration"}
Vectors == {"MultiArrayDimension[]", "uint8[]", "int8[]", "uint16[]", "int16[]", "uint32[]",
            "int32[]", "uint64[]", "int64[]", "float32[]", "float64[]"}

FixedField(f) == f \in FixedTypes \/ (f \in StdTypes /\ HeaderOf(f).fixed)

\* No two headers announce one type or one checksum, every field is of a
\* type there is, and a message has a fixed size exactly if its fields have.
ASSUME CatalogueAssumption ==
  /\ \A m, n \in Catalogue : m.type = n.type \/ m.md5sum = n.md5sum => m = n
  /\ \A m \in Catalogue : \A i \in DOMAIN m.fields :
       m.fields[i] \in FixedTypes \cup {"string"} \cup Vectors \cup StdTypes
  /\ \A m \in Catalogue :
       m.fixed <=> \A i \in DOMAIN m.fields : FixedField(m.fields[i])
=============================================================================
