--------------------------- MODULE MCJerasureJni ---------------------------
(* Model-checking instance of JerasureJni: the arrays and threads are model *)
(* values, given in the .cfg files, and each run picks the native methods   *)
(* the Java threads call.                                                  *)
EXTENDS JerasureJni

\* The methods of JJerasure.cpp.
JerasureMethods ==
  {"matrix_to_bitmatrix", "do_parity", "matrix_encode", "bitmatrix_encode",
   "matrix_decode", "bitmatrix_decode", "make_decoding_matrix",
   "make_decoding_bitmatrix", "erasures_to_erased"}

\* JJerasure.cpp's methods with galois_region_xor, whose three Gets are
\* released whatever happened.
FailedGetMethods == JerasureMethods \cup {"galois_region_xor"}

\* Encoding and decoding of device sets.
CodecMethods ==
  {"do_parity", "matrix_encode", "bitmatrix_encode", "matrix_decode",
   "bitmatrix_decode"}

\* Preparing a decode: the erased vector, the decoding matrix and dm_ids,
\* and the bitmatrix, next to an encoder reading a shared matrix; and
\* invert_matrix, which Java declares but the library never defines.
DecodingSetupMethods ==
  {"erasures_to_erased", "make_decoding_matrix", "make_decoding_bitmatrix",
   "matrix_to_bitmatrix", "matrix_encode", "invert_matrix"}

\* The coding-matrix builders of JCauchy.cpp and JLiberation.cpp, with the
\* encoder that uses the matrices they build.
BuilderMethods ==
  {"cauchy_original_coding_matrix", "cauchy_xy_coding_matrix",
   "cauchy_improve_coding_matrix", "cauchy_good_general_coding_matrix",
   "liberation_coding_bitmatrix", "liber8tion_coding_bitmatrix",
   "blaum_roth_coding_bitmatrix", "matrix_to_bitmatrix", "matrix_encode"}

\* The region operations of JGalois.cpp and the methods of JReedSolomon.cpp.
GaloisRSMethods ==
  {"galois_region_xor", "reed_sol_vandermonde_coding_matrix",
   "reed_sol_extended_vandermonde_matrix",
   "reed_sol_big_vandermonde_distribution_matrix", "reed_sol_r6_coding_matrix",
   "reed_sol_r6_encode"} \cup RegionMultiplies \cup RegionMultbys

\* The builders whose new int[] may fail to be allocated.
BuildersOnly == {"cauchy_original_coding_matrix"}

\* A single method, for the violation runs about one method's defect.
RegionMultiplyOnly == {"galois_w08_region_multiply"}
VandermondeOnly    == {"reed_sol_vandermonde_coding_matrix"}

\* Threads and same-typed arrays are interchangeable: no property names one.
Symmetry == Permutations(Threads) \cup Permutations(ByteArrays)
              \cup Permutations(IntArrays)
=============================================================================
