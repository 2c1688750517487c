------------------------------ MODULE EvpCipher -------------------------------
(***************************************************************************)
(* The symmetric-cipher, AEAD, HMAC, RAND and public-key encryption entry *)
(* points of org_conscrypt_NativeCrypto.cpp (NativeCrypto_EVP_Cipher*,    *)
(* NativeCrypto_EVP_CIPHER_*, evp_aead_ctx_op, NativeCrypto_EVP_AEAD_*,    *)
(* NativeCrypto_HMAC_*, NativeCrypto_RAND_bytes, evpPkeyEncryptDecrypt and *)
(* the NativeCrypto_EVP_PKEY_CTX_ functions), composed with the digest    *)
(* entry points of EvpDigest: one Java thread calls any of them, one at a  *)
(* time, and they all report failures through the same BoringSSL error     *)
(* queue with throwExceptionIfNecessary, so an error one of them leaves    *)
(* queued is what a failing call of another one throws.                    *)
(*                                                                         *)
(* As in EvpDigest the library is the environment and a Java array is one  *)
(* of "null", "unpinned" (the JVM cannot pin or copy it: ScopedByteArray   *)
(* leaves OutOfMemoryError pending) or "array", with a length where the    *)
(* bounds tests read it.  Cipher output itself is not modelled.           *)
(***************************************************************************)
EXTENDS EvpDigest

VARIABLES
    cctx,   \* the EVP_CIPHER_CTX Java's NativeRef holds: "none" or "live"
    hctx,   \* the HMAC_CTX Java's NativeRef holds: "none" or "live"
    pctx    \* the EVP_PKEY_CTX Java holds: "none" or "live"

ctxs == <<cctx, hctx, pctx>>
cryptoVars == <<vars, ctxs>>

CipherCalls ==
    {"EVP_get_cipherbyname", "EVP_CipherInit_ex", "EVP_CipherUpdate",
     "EVP_CipherFinal_ex", "EVP_CIPHER_iv_length", "EVP_CIPHER_CTX_new",
     "EVP_CIPHER_CTX_block_size", "get_EVP_CIPHER_CTX_buf_len",
     "get_EVP_CIPHER_CTX_final_used", "EVP_CIPHER_CTX_set_padding",
     "EVP_CIPHER_CTX_set_key_length", "EVP_CIPHER_CTX_free",
     "EVP_AEAD_max_overhead", "EVP_AEAD_nonce_length", "EVP_AEAD_max_tag_len",
     "EVP_AEAD_CTX_seal", "EVP_AEAD_CTX_open", "HMAC_CTX_new", "HMAC_CTX_free",
     "HMAC_Init_ex", "HMAC_UpdateDirect", "HMAC_Update", "HMAC_Final",
     "RAND_bytes", "EVP_PKEY_encrypt_init", "EVP_PKEY_decrypt_init",
     "EVP_PKEY_encrypt", "EVP_PKEY_decrypt", "EVP_PKEY_CTX_free",
     "EVP_PKEY_CTX_set_rsa_padding", "EVP_PKEY_CTX_set_rsa_pss_saltlen",
     "EVP_PKEY_CTX_set_rsa_mgf1_md", "EVP_PKEY_CTX_set_rsa_oaep_md",
     "EVP_PKEY_CTX_set_rsa_oaep_label", "EVP_PKEY_type", "EVP_PKEY_size",
     "EVP_PKEY_print_public", "EVP_PKEY_print_params", "EVP_PKEY_free",
     "EVP_PKEY_cmp", "OBJ_txt2nid", "OBJ_txt2nid_longName",
     "EC_GROUP_get_curve_name", "EC_GROUP_get_degree", "EC_GROUP_get_curve",
     "EC_GROUP_get_order", "EC_GROUP_get_cofactor", "EC_GROUP_new_by_curve_name",
     "EC_GROUP_new_arbitrary", "EC_GROUP_clear_free", "EC_POINT_clear_free",
     "EC_GROUP_get_generator", "EC_POINT_new", "EC_POINT_set_affine_coordinates",
     "EC_POINT_get_affine_coordinates", "EC_KEY_generate_key",
     "EC_KEY_get1_group", "EC_KEY_get_private_key", "EC_KEY_get_public_key",
     "ECDH_compute_key", "EVP_PKEY_new_EC_KEY", "i2d_PKCS8_PRIV_KEY_INFO",
     "d2i_PKCS8_PRIV_KEY_INFO", "i2d_PUBKEY", "d2i_PUBKEY",
     "get_RSA_public_params", "get_RSA_private_params", "RSA_size",
     "RSA_private_encrypt", "RSA_public_decrypt", "RSA_public_encrypt",
     "RSA_private_decrypt", "RSA_generate_key_ex"}

\* A Java array argument, and the lengths the bounds tests see.
Arrays == {"null", "unpinned", "array"}
CipherLen == 1

CipherCtxArgs == {"null"} \cup (IF cctx = "live" THEN {"live"} ELSE {})
HmacCtxArgs == {"null"} \cup (IF hctx = "live" THEN {"live"} ELSE {})
PkeyCtxArgs == {"null"} \cup (IF pctx = "live" THEN {"live"} ELSE {})

\* A call that is not a digest update: the digest context and evpUpdate's
\* locals are untouched.
Quiet == /\ Idle /\ UNCHANGED <<ctx, phase>> /\ NoUpdate

\* The exception a ScopedByteArrayRO/RW of a non-"array" argument leaves
\* pending; the caller returns at once.
ArrayExc(arr) == IF arr = "null" THEN "NPE" ELSE "OOM"

\* A library call that fails and pushes an error, thrown by
\* throwExceptionIfNecessary; the entry point returns r.
LibFail(c, r) == mdCall' = c /\ mdRet' = r /\ LibThrow("none")

-----------------------------------------------------------------------------
(* EVP_CIPHER and EVP_CIPHER_CTX                                           *)

\* NativeCrypto_EVP_get_cipherbyname: one of the sixteen names -> the
\* EVP_CIPHER, any other -> 0 with no exception, a lookup miss Java checks
\* for.  A null or unconvertible name leaves c_str() nullptr, which
\* strcasecmp dereferences; Java never passes one and it is not modelled.
EVP_get_cipherbyname ==
    /\ \/ Return("EVP_get_cipherbyname", "ok", "none")
       \/ Return("EVP_get_cipherbyname", "absent", "none")
    /\ Quiet /\ UNCHANGED ctxs

\* NativeCrypto_EVP_CIPHER_CTX_new: OutOfMemoryError when
\* EVP_CIPHER_CTX_new fails, else the context, wrapped in a NativeRef.
EVP_CIPHER_CTX_new ==
    /\ cctx = "none"
    /\ \/ Return("EVP_CIPHER_CTX_new", "fail", "OOM") /\ UNCHANGED cctx
       \/ Return("EVP_CIPHER_CTX_new", "ok", "none") /\ cctx' = "live"
    /\ Quiet /\ UNCHANGED <<hctx, pctx>>

\* NativeCrypto_EVP_CIPHER_CTX_free, from NativeRef's finalizer.
EVP_CIPHER_CTX_free ==
    /\ cctx = "live"
    /\ Return("EVP_CIPHER_CTX_free", "void", "none") /\ cctx' = "none"
    /\ Quiet /\ UNCHANGED <<hctx, pctx>>

\* NativeCrypto_EVP_CipherInit_ex: context; a key and an IV, each either
\* null (absent) or copied out of a ScopedByteArrayRO that may fail; then
\* EVP_CipherInit_ex, whose failure is thrown from the queue.
EVP_CipherInit_ex ==
    /\ \E a \in CipherCtxArgs, key, iv \in Arrays :
          LET c == "EVP_CipherInit_ex" IN
          IF a = "null" THEN Return(c, "void", fromContextObject(a))
          ELSE IF key = "unpinned" \/ iv = "unpinned" THEN Return(c, "void", "OOM")
          ELSE \/ Return(c, "void", "none")
               \/ LibFail(c, "void")
    /\ Quiet /\ UNCHANGED ctxs

\* NativeCrypto_EVP_CipherUpdate: context; in, then its
\* ARRAY_OFFSET_LENGTH_INVALID; out, then ARRAY_OFFSET_LENGTH_INVALID of
\* outOffset with inLength; EVP_CipherUpdate, whose failure is thrown and
\* returns 0.
EVP_CipherUpdate ==
    /\ LET c == "EVP_CipherUpdate" IN
       \E a \in CipherCtxArgs :
       IF a = "null" THEN Return(c, "fail", fromContextObject(a)) ELSE
       \E in \in Arrays :
       IF in # "array" THEN Return(c, "fail", ArrayExc(in)) ELSE
       \E inOff, n \in -1..CipherLen + 1 :
       IF ChunkInvalid(CipherLen, inOff, n) THEN Return(c, "fail", "IOOB") ELSE
       \E out \in Arrays :
       IF out # "array" THEN Return(c, "fail", ArrayExc(out)) ELSE
       \E outOff \in -1..CipherLen + 1 :
       IF ChunkInvalid(CipherLen, outOff, n) THEN Return(c, "fail", "IOOB") ELSE
           \/ Return(c, "ok", "none")
           \/ LibFail(c, "fail")
    /\ Quiet /\ UNCHANGED ctxs

\* The exception a failed EVP_CipherFinal_ex leaves: throwExceptionIfNecessary
\* throws the oldest queued error if there is one (queued), and otherwise
\* the code throws BadPaddingException.
FinalFailureExc(queued) == IF queued THEN "stale" ELSE "BadPadding"

\* NativeCrypto_EVP_CipherFinal_ex: context; out through ScopedByteArrayRW
\* (outOffset is not checked); EVP_CipherFinal_ex.  It fails with an error
\* pushed (bad padding or a wrong final block length), or with none (the
\* GCM tag check of an EVP_CIPHER, which returns -1 without an error).
EVP_CipherFinal_ex ==
    /\ \E a \in CipherCtxArgs, out \in Arrays :
          LET c == "EVP_CipherFinal_ex" IN
          IF a = "null" THEN Return(c, "fail", fromContextObject(a))
          ELSE IF out # "array" THEN Return(c, "fail", ArrayExc(out))
          ELSE \/ Return(c, "ok", "none")
               \/ LibFail(c, "fail")
               \/ /\ mdCall' = c /\ mdRet' = "fail"
                  /\ mdExc' = FinalFailureExc(errQueued)
                  /\ errQueued' = FALSE
    /\ Quiet /\ UNCHANGED ctxs

\* NativeCrypto_EVP_CIPHER_CTX_block_size, get_EVP_CIPHER_CTX_buf_len,
\* get_EVP_CIPHER_CTX_final_used and EVP_CIPHER_CTX_set_padding (whose
\* library call always returns 1): context, then the answer.
CipherCtxQuery ==
    /\ \E f \in {"EVP_CIPHER_CTX_block_size", "get_EVP_CIPHER_CTX_buf_len",
                "get_EVP_CIPHER_CTX_final_used", "EVP_CIPHER_CTX_set_padding"},
          a \in CipherCtxArgs :
          LET r == IF f = "EVP_CIPHER_CTX_set_padding" THEN "void" ELSE "ok" IN
          IF a = "null"
          THEN Return(f, IF r = "void" THEN r ELSE "fail", fromContextObject(a))
          ELSE Return(f, r, "none")
    /\ Quiet /\ UNCHANGED ctxs

\* NativeCrypto_EVP_CIPHER_CTX_set_key_length: context, then
\* EVP_CIPHER_CTX_set_key_length, whose failure is thrown.
EVP_CIPHER_CTX_set_key_length ==
    /\ \E a \in CipherCtxArgs :
          LET c == "EVP_CIPHER_CTX_set_key_length" IN
          IF a = "null" THEN Return(c, "void", fromContextObject(a))
          ELSE Return(c, "void", "none") \/ LibFail(c, "void")
    /\ Quiet /\ UNCHANGED ctxs

\* NativeCrypto_EVP_CIPHER_iv_length: a null EVP_CIPHER ->
\* NullPointerException and 0, else the library's answer.
EVP_CIPHER_iv_length ==
    /\ \/ Return("EVP_CIPHER_iv_length", "fail", "NPE")
       \/ Return("EVP_CIPHER_iv_length", "ok", "none")
    /\ Quiet /\ UNCHANGED ctxs

-----------------------------------------------------------------------------
(* AEAD                                                                    *)

\* NativeCrypto_EVP_AEAD_max_overhead, _nonce_length and _max_tag_len: a
\* null EVP_AEAD -> NullPointerException and 0, else the library's answer.
AlgorithmQuery ==
    /\ \E f \in {"EVP_AEAD_max_overhead", "EVP_AEAD_nonce_length",
                "EVP_AEAD_max_tag_len"} :
          Return(f, "fail", "NPE") \/ Return(f, "ok", "none")
    /\ Quiet /\ UNCHANGED ctxs

\* evp_aead_ctx_op (NativeCrypto_EVP_AEAD_CTX_seal and _open), its checks in
\* order: the key, out, ARRAY_OFFSET_INVALID of outOffset, in,
\* ARRAY_OFFSET_LENGTH_INVALID of inOffset/inLength, the optional aad, the
\* nonce; then EVP_AEAD_CTX_init and the seal or open, each failure thrown
\* from the queue.  After a failed seal or open the code still returns
\* actualOutLength, which the library zeroes on error.
evp_aead_ctx_op ==
    /\ \E f \in {"EVP_AEAD_CTX_seal", "EVP_AEAD_CTX_open"}, key \in Arrays :
       IF key # "array" THEN Return(f, "fail", ArrayExc(key)) ELSE
       \E out \in Arrays :
       IF out # "array" THEN Return(f, "fail", ArrayExc(out)) ELSE
       \E outOff \in -1..CipherLen + 1 :
       IF outOff < 0 \/ outOff > CipherLen THEN Return(f, "fail", "IOOB") ELSE
       \E in \in Arrays :
       IF in # "array" THEN Return(f, "fail", ArrayExc(in)) ELSE
       \E inOff \in -1..CipherLen + 1, n \in -1..CipherLen + 1 :
       IF ChunkInvalid(CipherLen, inOff, n) THEN Return(f, "fail", "IOOB") ELSE
       \E aad, nonce \in Arrays :
       IF aad = "unpinned" THEN Return(f, "fail", "OOM") ELSE
       IF nonce # "array" THEN Return(f, "fail", ArrayExc(nonce)) ELSE
           \/ Return(f, "ok", "none")
           \/ LibFail(f, "fail")
    /\ Quiet /\ UNCHANGED ctxs

-----------------------------------------------------------------------------
(* HMAC and RAND                                                           *)

\* NativeCrypto_HMAC_CTX_new: new HMAC_CTX (never nullptr), HMAC_CTX_init.
HMAC_CTX_new ==
    /\ hctx = "none"
    /\ Return("HMAC_CTX_new", "ok", "none") /\ hctx' = "live"
    /\ Quiet /\ UNCHANGED <<cctx, pctx>>

\* NativeCrypto_HMAC_CTX_free: HMAC_CTX_cleanup and delete.
HMAC_CTX_free ==
    /\ hctx = "live"
    /\ Return("HMAC_CTX_free", "void", "none") /\ hctx' = "none"
    /\ Quiet /\ UNCHANGED <<cctx, pctx>>

\* NativeCrypto_HMAC_Init_ex: context (a null one throws
\* NullPointerException in fromContextObject and again in the caller); the
\* key through ScopedByteArrayRO; HMAC_Init_ex, whose failure is thrown.
HMAC_Init_ex ==
    /\ \E a \in HmacCtxArgs, key \in Arrays :
          LET c == "HMAC_Init_ex" IN
          IF a = "null" THEN Return(c, "void", fromContextObject(a))
          ELSE IF key # "array" THEN Return(c, "void", ArrayExc(key))
          ELSE Return(c, "void", "none") \/ LibFail(c, "void")
    /\ Quiet /\ UNCHANGED ctxs

\* NativeCrypto_HMAC_UpdateDirect: context; a null address ->
\* NullPointerException; HMAC_Update, whose failure is thrown.
HMAC_UpdateDirect ==
    /\ \E a \in HmacCtxArgs, p \in {"null", "ptr"} :
          LET c == "HMAC_UpdateDirect" IN
          IF a = "null" THEN Return(c, "void", fromContextObject(a))
          ELSE IF p = "null" THEN Return(c, "void", "NPE")
          ELSE Return(c, "void", "none") \/ LibFail(c, "void")
    /\ Quiet /\ UNCHANGED ctxs

\* NativeCrypto_HMAC_Update: context; in through ScopedByteArrayRO;
\* ARRAY_OFFSET_LENGTH_INVALID -> ArrayIndexOutOfBoundsException;
\* HMAC_Update, whose failure is thrown.
HMAC_Update ==
    /\ \E a \in HmacCtxArgs, in \in Arrays, off, n \in -1..CipherLen + 1 :
          LET c == "HMAC_Update" IN
          IF a = "null" THEN Return(c, "void", fromContextObject(a))
          ELSE IF in # "array" THEN Return(c, "void", ArrayExc(in))
          ELSE IF ChunkInvalid(CipherLen, off, n) THEN Return(c, "void", "IOOB")
          ELSE Return(c, "void", "none") \/ LibFail(c, "void")
    /\ Quiet /\ UNCHANGED ctxs

\* NativeCrypto_HMAC_Final: context; HMAC_Final, whose failure is thrown;
\* NewByteArray or ScopedByteArrayRW of the result failing -> null with
\* OutOfMemoryError.
HMAC_Final ==
    /\ \E a \in HmacCtxArgs :
          LET c == "HMAC_Final" IN
          IF a = "null" THEN Return(c, "fail", fromContextObject(a))
          ELSE \/ LibFail(c, "fail")
               \/ Return(c, "fail", "OOM")
               \/ Return(c, "ok", "none")
    /\ Quiet /\ UNCHANGED ctxs

\* NativeCrypto_RAND_bytes: output through ScopedByteArrayRW; RAND_bytes
\* <= 0 is thrown from the queue.
RAND_bytes ==
    /\ \E out \in Arrays :
          IF out # "array" THEN Return("RAND_bytes", "void", ArrayExc(out))
          ELSE Return("RAND_bytes", "void", "none") \/ LibFail("RAND_bytes", "void")
    /\ Quiet /\ UNCHANGED ctxs

-----------------------------------------------------------------------------
(* Public-key encryption: EVP_PKEY_CTX                                     *)

\* evpPkeyEcryptDecryptInit (NativeCrypto_EVP_PKEY_encrypt_init and
\* _decrypt_init): the key through fromContextObject; EVP_PKEY_CTX_new and
\* then the init function, each failure thrown from the queue (the
\* UniquePtr frees a context whose init failed); else the context.
evpPkeyEcryptDecryptInit ==
    /\ pctx = "none"
    /\ \E f \in {"EVP_PKEY_encrypt_init", "EVP_PKEY_decrypt_init"},
          key \in {"null", "live"} :
          IF key = "null" THEN Return(f, "fail", fromContextObject(key)) /\ UNCHANGED pctx
          ELSE \/ LibFail(f, "fail") /\ UNCHANGED pctx
               \/ Return(f, "ok", "none") /\ pctx' = "live"
    /\ Quiet /\ UNCHANGED <<cctx, hctx>>

\* evpPkeyEncryptDecrypt (NativeCrypto_EVP_PKEY_encrypt and _decrypt): the
\* context; out and in through ScopedByteArrayRW/RO; ARRAY_OFFSET_INVALID
\* of outOffset, ARRAY_OFFSET_LENGTH_INVALID of in; the library call, whose
\* failure is thrown from the queue and returns 0.
evpPkeyEncryptDecrypt ==
    /\ \E f \in {"EVP_PKEY_encrypt", "EVP_PKEY_decrypt"}, a \in PkeyCtxArgs :
       IF a = "null" THEN Return(f, "fail", fromContextObject(a)) ELSE
       \E out, in \in Arrays :
       IF out # "array" THEN Return(f, "fail", ArrayExc(out)) ELSE
       IF in # "array" THEN Return(f, "fail", ArrayExc(in)) ELSE
       \E outOff, inOff, n \in -1..CipherLen + 1 :
       IF outOff < 0 \/ outOff > CipherLen THEN Return(f, "fail", "IOOB") ELSE
       IF ChunkInvalid(CipherLen, inOff, n) THEN Return(f, "fail", "IOOB") ELSE
           \/ Return(f, "ok", "none")
           \/ LibFail(f, "fail")
    /\ Quiet /\ UNCHANGED ctxs

\* NativeCrypto_EVP_PKEY_CTX_free: EVP_PKEY_CTX_free unless the address is 0.
EVP_PKEY_CTX_free ==
    /\ pctx = "live"
    /\ Return("EVP_PKEY_CTX_free", "void", "none") /\ pctx' = "none"
    /\ Quiet /\ UNCHANGED <<cctx, hctx>>

\* NativeCrypto_EVP_PKEY_CTX_set_rsa_padding and _set_rsa_pss_saltlen: the
\* context is a raw address, 0 -> NullPointerException; a result <= 0 is
\* thrown from the queue.
PkeyCtxCtrl ==
    /\ \E f \in {"EVP_PKEY_CTX_set_rsa_padding",
                "EVP_PKEY_CTX_set_rsa_pss_saltlen"}, a \in PkeyCtxArgs :
          IF a = "null" THEN Return(f, "void", "NPE")
          ELSE Return(f, "void", "none") \/ LibFail(f, "void")
    /\ Quiet /\ UNCHANGED ctxs

\* evpPkeyCtxCtrlMdOp (NativeCrypto_EVP_PKEY_CTX_set_rsa_mgf1_md and
\* _set_rsa_oaep_md): a 0 context, then a 0 EVP_MD -> NullPointerException;
\* a result <= 0 is thrown from the queue.
evpPkeyCtxCtrlMdOp ==
    /\ \E f \in {"EVP_PKEY_CTX_set_rsa_mgf1_md", "EVP_PKEY_CTX_set_rsa_oaep_md"},
          a \in PkeyCtxArgs, md \in {"null", "md"} :
          IF a = "null" \/ md = "null" THEN Return(f, "void", "NPE")
          ELSE Return(f, "void", "none") \/ LibFail(f, "void")
    /\ Quiet /\ UNCHANGED ctxs

\* NativeCrypto_EVP_PKEY_CTX_set_rsa_oaep_label: a 0 context ->
\* NullPointerException; the label through ScopedByteArrayRO, copied into
\* OPENSSL_malloc'd memory (never checked for nullptr; not modelled); a
\* result <= 0 is thrown from the queue and the copy freed.
EVP_PKEY_CTX_set_rsa_oaep_label ==
    /\ \E a \in PkeyCtxArgs, label \in Arrays :
          LET c == "EVP_PKEY_CTX_set_rsa_oaep_label" IN
          IF a = "null" THEN Return(c, "void", "NPE")
          ELSE IF label # "array" THEN Return(c, "void", ArrayExc(label))
          ELSE Return(c, "void", "none") \/ LibFail(c, "void")
    /\ Quiet /\ UNCHANGED ctxs

-----------------------------------------------------------------------------
(* EVP_PKEY queries; the keys themselves come from marshaling code that is *)
(* not modelled, so a key argument is a null object or a live key.         *)

\* NativeCrypto_EVP_PKEY_type and NativeCrypto_EVP_PKEY_size: the key
\* through fromContextObject (-1 if null), then the library's answer.
PkeyQuery ==
    /\ \E f \in {"EVP_PKEY_type", "EVP_PKEY_size"}, key \in {"null", "live"} :
          IF key = "null" THEN Return(f, "fail", fromContextObject(key))
          ELSE Return(f, "ok", "none")
    /\ Quiet /\ UNCHANGED ctxs

\* evp_print_func (NativeCrypto_EVP_PKEY_print_public and _print_params):
\* the key; a memory BIO (OutOfMemoryError if BIO_new fails); the print
\* function, != 1 thrown from the queue; NewStringUTF of the text, which
\* leaves OutOfMemoryError pending when it fails.
evp_print_func ==
    /\ \E f \in {"EVP_PKEY_print_public", "EVP_PKEY_print_params"},
          key \in {"null", "live"} :
          IF key = "null" THEN Return(f, "fail", fromContextObject(key))
          ELSE \/ Return(f, "fail", "OOM")
               \/ LibFail(f, "fail")
               \/ Return(f, "ok", "none")
    /\ Quiet /\ UNCHANGED ctxs

\* NativeCrypto_EVP_PKEY_free: EVP_PKEY_free unless the address is 0.
EVP_PKEY_free ==
    /\ Return("EVP_PKEY_free", "void", "none")
    /\ Quiet /\ UNCHANGED ctxs

\* NativeCrypto_EVP_PKEY_cmp: both keys through fromContextObject (0 if
\* either is null), then EVP_PKEY_cmp's answer as it is.
EVP_PKEY_cmp ==
    /\ \E k1, k2 \in {"null", "live"} :
          IF k1 = "null" THEN Return("EVP_PKEY_cmp", "fail", fromContextObject(k1))
          ELSE IF k2 = "null" THEN Return("EVP_PKEY_cmp", "fail", fromContextObject(k2))
          ELSE Return("EVP_PKEY_cmp", "ok", "none")
    /\ Quiet /\ UNCHANGED ctxs

\* The EC_GROUP getters (NativeCrypto_EC_GROUP_get_curve_name, _degree,
\* _curve, _order, _cofactor): the group through fromContextObject.  A
\* curve with no NID returns null with no exception (Java reads it as an
\* unnamed curve); degree 0 throws RuntimeException.  The BIGNUM getters
\* fail with OutOfMemoryError (BN_new, NewObjectArray, or NewByteArray in
\* bignumToArray), from the queue (EC_GROUP_get_*, BN_bn2bin), or succeed.
EcGroupQuery ==
    /\ \E f \in {"EC_GROUP_get_curve_name", "EC_GROUP_get_degree",
                 "EC_GROUP_get_curve", "EC_GROUP_get_order",
                 "EC_GROUP_get_cofactor"}, grp \in {"null", "live"} :
          IF grp = "null" THEN Return(f, "fail", fromContextObject(grp))
          ELSE IF f = "EC_GROUP_get_curve_name"
               THEN Return(f, "absent", "none") \/ Return(f, "ok", "none")
          ELSE IF f = "EC_GROUP_get_degree"
               THEN Return(f, "fail", "RuntimeException") \/ Return(f, "ok", "none")
          ELSE \/ Return(f, "fail", "OOM")
               \/ LibFail(f, "fail")
               \/ Return(f, "ok", "none")
    /\ Quiet /\ UNCHANGED ctxs

-----------------------------------------------------------------------------
(* EC groups, points and keys.  A group, point or key argument is a null   *)
(* object or a live one; a key is an EC key or another kind.  Every EC key *)
(* has a public point (EVP_PKEY_new_EC_KEY ends with EC_KEY_check_key); a  *)
(* key made from a public point alone has no private key.                  *)

\* arrayToBignum: ScopedByteArrayRO throws NullPointerException for a null
\* array, and a failing BN_bin2bn throws RuntimeException.
arrayToBignumFailures == {"NPE", "RuntimeException"}

\* NativeCrypto_EC_GROUP_new_by_curve_name: a null name throws in
\* ScopedUtfChars; a name OBJ_sn2nid does not know, and a curve
\* EC_GROUP_new_by_curve_name cannot build (after ERR_clear_error), return
\* 0 with no exception: Java reads 0 as an unsupported curve.
EC_GROUP_new_by_curve_name ==
    /\ \E name \in {"null", "unknown", "known"} :
          IF name = "null" THEN Return("EC_GROUP_new_by_curve_name", "fail", "NPE")
          ELSE IF name = "unknown"
               THEN Return("EC_GROUP_new_by_curve_name", "absent", "none")
          ELSE \/ /\ mdCall' = "EC_GROUP_new_by_curve_name" /\ mdRet' = "absent"
                  /\ mdExc' = "none" /\ errQueued' = FALSE
               \/ Return("EC_GROUP_new_by_curve_name", "ok", "none")
    /\ Quiet /\ UNCHANGED ctxs

\* NativeCrypto_EC_GROUP_new_arbitrary: cofactor < 1 throws
\* IllegalArgumentException; BN_new failing returns 0 with nothing thrown
\* and its malloc error left queued; the six arrayToBignum calls stop at
\* the first failure, with its exception pending, and BN_set_word failing
\* returns 0 like BN_new.  EC_GROUP_new_curve_GFp, EC_POINT_set_affine_coordinates_GFp and
\* EC_GROUP_set_generator throw from the queue; EC_POINT_new failing clears
\* the queue and returns 0 with nothing thrown.
EC_GROUP_new_arbitrary ==
    /\ LET f == "EC_GROUP_new_arbitrary" IN
       \E cofactor \in {0, 1} :
          IF cofactor < 1 THEN Return(f, "fail", "IllegalArgument")
          ELSE \/ /\ mdCall' = f /\ mdRet' = "fail" /\ mdExc' = "none"
                  /\ errQueued' = TRUE                         \* BN_new, BN_set_word
               \/ \E e \in arrayToBignumFailures : Return(f, "fail", e)
               \/ LibFail(f, "fail")                           \* the three EC calls
               \/ /\ mdCall' = f /\ mdRet' = "fail" /\ mdExc' = "none"
                  /\ errQueued' = FALSE                        \* EC_POINT_new
               \/ Return(f, "ok", "none")
    /\ Quiet /\ UNCHANGED ctxs

\* NativeCrypto_EC_GROUP_clear_free and _EC_POINT_clear_free take the raw
\* address: 0 throws NullPointerException, otherwise the object is freed.
\* NativeCrypto_EC_GROUP_get_generator (EC_POINT_dup) and _EC_POINT_new:
\* the group through fromContextObject, then OutOfMemoryError when the
\* allocation fails.
EcObjectNewFree ==
    /\ \/ \E f \in {"EC_GROUP_clear_free", "EC_POINT_clear_free"},
             addr \in {"null", "live"} :
             Return(f, "void", IF addr = "null" THEN "NPE" ELSE "none")
       \/ \E f \in {"EC_GROUP_get_generator", "EC_POINT_new"},
             grp \in {"null", "live"} :
             IF grp = "null" THEN Return(f, "fail", fromContextObject(grp))
             ELSE Return(f, "fail", "OOM") \/ Return(f, "ok", "none")
    /\ Quiet /\ UNCHANGED ctxs

\* NativeCrypto_EC_POINT_set_affine_coordinates (void) and
\* _get_affine_coordinates: group, then point, through fromContextObject;
\* set converts x and y with arrayToBignum; the library call != 1 throws
\* from the queue; get then fails with OutOfMemoryError in NewObjectArray
\* or bignumToArray.
EcPointAffine ==
    /\ \E f \in {"EC_POINT_set_affine_coordinates",
                 "EC_POINT_get_affine_coordinates"},
          grp, pt \in {"null", "live"} :
          LET r == IF f = "EC_POINT_set_affine_coordinates" THEN "void" ELSE "fail"
          IN IF grp = "null" THEN Return(f, r, fromContextObject(grp))
             ELSE IF pt = "null" THEN Return(f, r, fromContextObject(pt))
             ELSE \/ /\ f = "EC_POINT_set_affine_coordinates"
                     /\ \E e \in arrayToBignumFailures : Return(f, r, e)
                  \/ LibFail(f, r)
                  \/ /\ f = "EC_POINT_get_affine_coordinates"
                     /\ Return(f, r, "OOM")
                  \/ Return(f, IF r = "void" THEN "void" ELSE "ok", "none")
    /\ Quiet /\ UNCHANGED ctxs

\* EC_KEY entry points on an EVP_PKEY: the key through fromContextObject,
\* then EVP_PKEY_get1_EC_KEY, which fails (from the queue) on another kind
\* of key.  NativeCrypto_EC_KEY_get1_group tests the type itself and throws
\* RuntimeException "not EC key"; EC_GROUP_dup of the key's group cannot
\* fail.  NativeCrypto_EC_KEY_get_private_key passes a key with no private
\* part to bignumToArray, which throws NullPointerException; NewByteArray
\* can fail with OutOfMemoryError.  NativeCrypto_EC_KEY_get_public_key
\* throws RuntimeException when EC_POINT_dup fails.
\* NativeCrypto_EC_KEY_generate_key: the group; EC_KEY_new failing throws
\* OutOfMemoryError; EC_KEY_set_group, EC_KEY_generate_key and EVP_PKEY_new
\* throw from the queue; EVP_PKEY_assign_EC_KEY failing throws
\* RuntimeException.
EcKeyOps ==
    /\ \/ \E grp \in {"null", "live"} :
             LET f == "EC_KEY_generate_key" IN
             IF grp = "null" THEN Return(f, "fail", fromContextObject(grp))
             ELSE \/ Return(f, "fail", "OOM")
                  \/ LibFail(f, "fail")
                  \/ Return(f, "fail", "RuntimeException")
                  \/ Return(f, "ok", "none")
       \/ \E f \in {"EC_KEY_get1_group", "EC_KEY_get_private_key",
                    "EC_KEY_get_public_key"},
             key \in {"null", "ec", "ecPublicOnly", "other"} :
             IF key = "null" THEN Return(f, "fail", fromContextObject(key))
             ELSE IF key = "other"
                  THEN IF f = "EC_KEY_get1_group"
                       THEN Return(f, "fail", "RuntimeException")
                       ELSE LibFail(f, "fail")
             ELSE IF f = "EC_KEY_get_private_key" /\ key = "ecPublicOnly"
                  THEN Return(f, "fail", "NPE")
             ELSE \/ /\ f # "EC_KEY_get1_group"
                     /\ Return(f, "fail", IF f = "EC_KEY_get_private_key"
                                          THEN "OOM" ELSE "RuntimeException")
                  \/ Return(f, "ok", "none")
    /\ Quiet /\ UNCHANGED ctxs

\* NativeCrypto_ECDH_compute_key: the public and the private key through
\* fromContextObject, the output array (NullPointerException if null), its
\* offset (ArrayIndexOutOfBoundsException), EVP_PKEY_get1_EC_KEY of each
\* key and ECDH_compute_key returning -1, these three thrown from the queue
\* as InvalidKeyException.  The public point is never null (see above).
ECDH_compute_key ==
    /\ \E pub, priv \in {"null", "ec", "other"}, out \in {"null", "array"},
          offset \in {"valid", "invalid"} :
          LET f == "ECDH_compute_key" IN
          IF pub = "null" THEN Return(f, "fail", fromContextObject(pub))
          ELSE IF priv = "null" THEN Return(f, "fail", fromContextObject(priv))
          ELSE IF out = "null" THEN Return(f, "fail", "NPE")
          ELSE IF offset = "invalid" THEN Return(f, "fail", "IOOB")
          ELSE IF pub = "other" \/ priv = "other" THEN LibFail(f, "fail")
          ELSE LibFail(f, "fail") \/ Return(f, "ok", "none")
    /\ Quiet /\ UNCHANGED ctxs

\* NativeCrypto_EVP_PKEY_new_EC_KEY: the group through fromContextObject;
\* the public point is optional (Java passes null or a live point); the
\* private key bytes are optional, converted with arrayToBignum; EC_KEY_new
\* failing throws RuntimeException; EC_KEY_set_group, _set_public_key,
\* _set_private_key, the EC_POINT_mul deriving a missing public point and
\* EC_KEY_check_key (which fails when neither part is given), then
\* EVP_PKEY_new, throw from the queue; EVP_PKEY_assign_EC_KEY failing
\* throws RuntimeException.
EVP_PKEY_new_EC_KEY ==
    /\ \E grp \in {"null", "live"}, pub \in {"null", "live"},
          priv \in {"null", "array"} :
          LET f == "EVP_PKEY_new_EC_KEY" IN
          IF grp = "null" THEN Return(f, "fail", fromContextObject(grp))
          ELSE \/ /\ priv = "array"
                  /\ \E e \in arrayToBignumFailures : Return(f, "fail", e)
               \/ Return(f, "fail", "RuntimeException")
               \/ LibFail(f, "fail")
               \/ /\ pub = "live" \/ priv = "array"
                  /\ Return(f, "ok", "none")
    /\ Quiet /\ UNCHANGED ctxs

\* ASN1ToByteArray of a live object: i2d measuring or encoding fails and
\* throws from the queue, NewByteArray or pinning it fails with
\* OutOfMemoryError pending, or the DER bytes are returned.
ASN1ToByteArray(c) ==
    \/ LibFail(c, "fail")
    \/ Return(c, "fail", "OOM")
    \/ Return(c, "ok", "none")

\* The key codecs.  i2d_PKCS8_PRIV_KEY_INFO's EVP_PKEY2PKCS8 (a key with no
\* private part) and both d2i parsers throw from the queue when they fail.
KeyCodec ==
    /\ \/ \E f \in {"i2d_PKCS8_PRIV_KEY_INFO", "i2d_PUBKEY"}, key \in {"null", "live"} :
             IF key = "null" THEN Return(f, "fail", fromContextObject(key))
             ELSE \/ f = "i2d_PKCS8_PRIV_KEY_INFO" /\ LibFail(f, "fail")
                  \/ ASN1ToByteArray(f)
       \/ \E f \in {"d2i_PKCS8_PRIV_KEY_INFO", "d2i_PUBKEY"}, arr \in Arrays :
             IF arr # "array" THEN Return(f, "fail", ArrayExc(arr))
             ELSE LibFail(f, "fail") \/ Return(f, "ok", "none")
    /\ Quiet /\ UNCHANGED ctxs

\* The EVP_PKEY a key handle points at: an RSA key or a key of another type.
RsaKeyArgs == {"null", "rsa", "other"}

\* get_RSA_public_params and get_RSA_private_params: EVP_PKEY_get1_RSA of a
\* non-RSA key fails and throws from the queue; NewObjectArray or a
\* bignumToArray NewByteArray leaves OutOfMemoryError pending; BN_bn2bin
\* failing throws from the queue.  Absent private parts are skipped.
RsaParams ==
    /\ \E f \in {"get_RSA_public_params", "get_RSA_private_params"}, key \in RsaKeyArgs :
          IF key = "null" THEN Return(f, "fail", fromContextObject(key))
          ELSE IF key = "other" THEN LibFail(f, "fail")
          ELSE \/ Return(f, "fail", "OOM")
               \/ LibFail(f, "fail")
               \/ Return(f, "ok", "none")
    /\ Quiet /\ UNCHANGED ctxs

-----------------------------------------------------------------------------
(* OID lookup.  OBJ_txt2nid of a text that is neither a known name nor a   *)
(* dotted OID pushes OBJ_R_INVALID_OID_STRING and returns NID_undef; a     *)
(* well-formed OID that names no known object returns NID_undef with no   *)
(* error.  A null or unconvertible string fails in ScopedUtfChars.         *)

\* The text of an OID argument.
OidTexts == {"null", "unconvertible", "known", "unknownOid", "notAnOid"}

\* NativeCrypto_OBJ_txt2nid: ScopedUtfChars, then OBJ_txt2nid's nid,
\* returned as it is; nothing clears the error queue.
OBJ_txt2nid ==
    /\ \E t \in OidTexts :
          LET c == "OBJ_txt2nid" IN
          CASE t = "null"          -> Return(c, "fail", "NPE")
            [] t = "unconvertible" -> Return(c, "fail", "OOM")
            [] t = "known"         -> Return(c, "ok", "none")
            [] t = "unknownOid"    -> Return(c, "absent", "none")
            [] t = "notAnOid"      -> /\ mdCall' = c /\ mdRet' = "absent"
                                      /\ mdExc' = "none" /\ errQueued' = TRUE
    /\ Quiet /\ UNCHANGED ctxs

\* NativeCrypto_OBJ_txt2nid_longName: ScopedUtfChars; NID_undef ->
\* ERR_clear_error and null; else NewStringUTF of OBJ_nid2ln, which leaves
\* OutOfMemoryError pending when it fails.
OBJ_txt2nid_longName ==
    /\ \E t \in OidTexts :
          LET c == "OBJ_txt2nid_longName" IN
          CASE t = "null"          -> Return(c, "fail", "NPE")
            [] t = "unconvertible" -> Return(c, "fail", "OOM")
            [] t = "known"         -> Return(c, "ok", "none") \/ Return(c, "fail", "OOM")
            [] OTHER               -> /\ mdCall' = c /\ mdRet' = "absent"
                                      /\ mdExc' = "none" /\ errQueued' = FALSE
    /\ Quiet /\ UNCHANGED ctxs

-----------------------------------------------------------------------------
(* The RSA entry points that test EVP_PKEY_get1_RSA and RSA_generate_key_ex *)
(* without reading the error queue.  EVP_PKEY_get1_RSA of a key of another *)
(* type pushes EVP_R_EXPECTING_AN_RSA_KEY and returns null.                *)

\* NativeCrypto_RSA_size: a failed EVP_PKEY_get1_RSA throws RuntimeException
\* by jniThrowRuntimeException, which does not read the queue.
RSA_size ==
    /\ \E key \in RsaKeyArgs :
          LET c == "RSA_size" IN
          IF key = "null" THEN Return(c, "fail", fromContextObject(key))
          ELSE IF key = "other"
               THEN /\ mdCall' = c /\ mdRet' = "fail"
                    /\ mdExc' = "RuntimeException" /\ errQueued' = TRUE
          ELSE Return(c, "ok", "none")
    /\ Quiet /\ UNCHANGED ctxs

\* RSA_crypt_operation behind the four RSA_*crypt entry points: a failed
\* EVP_PKEY_get1_RSA returns -1 with no exception; then the two arrays are
\* pinned; an operation result of -1 throws from the queue, or
\* BadPaddingException when the queue is empty.
RsaCrypt ==
    /\ \E c \in {"RSA_private_encrypt", "RSA_public_decrypt",
                  "RSA_public_encrypt", "RSA_private_decrypt"},
          key \in RsaKeyArgs, from \in Arrays, to \in Arrays :
          IF key = "null" THEN Return(c, "fail", fromContextObject(key))
          ELSE IF key = "other"
               THEN /\ mdCall' = c /\ mdRet' = "fail"
                    /\ mdExc' = "none" /\ errQueued' = TRUE
          ELSE IF from # "array" THEN Return(c, "fail", ArrayExc(from))
          ELSE IF to # "array" THEN Return(c, "fail", ArrayExc(to))
          ELSE \/ Return(c, "ok", "none")
               \/ LibFail(c, "fail")
               \/ /\ mdCall' = c /\ mdRet' = "fail"
                  /\ mdExc' = FinalFailureExc(errQueued)
                  /\ errQueued' = FALSE
    /\ Quiet /\ UNCHANGED ctxs

\* The code's test of BoringSSL's RSA_generate_key_ex, which returns 1 on
\* success and 0 on failure.
GenerateFailed(res) == res < 0

\* NativeCrypto_RSA_generate_key_ex: arrayToBignum of the exponent, RSA_new
\* (OutOfMemoryError), RSA_generate_key_ex (a failure pushes an error), then
\* EVP_PKEY_new and EVP_PKEY_assign_RSA, each throwing RuntimeException.
RSA_generate_key_ex ==
    /\ \E conv \in {"ok"} \cup arrayToBignumFailures, res \in {0, 1} :
          LET c == "RSA_generate_key_ex" IN
          IF conv # "ok" THEN Return(c, "fail", conv)
          ELSE \/ Return(c, "fail", "OOM")
               \/ IF GenerateFailed(res) THEN LibFail(c, "fail")
                  ELSE /\ mdCall' = c
                       /\ \E r \in {"fail", "ok"} :
                             /\ mdRet' = r
                             /\ mdExc' = IF r = "ok" THEN "none" ELSE "RuntimeException"
                       /\ errQueued' = (errQueued \/ res = 0)
    /\ Quiet /\ UNCHANGED ctxs

-----------------------------------------------------------------------------

CryptoInit == Init /\ cctx = "none" /\ hctx = "none" /\ pctx = "none"

CipherNext ==
    \/ EVP_get_cipherbyname \/ EVP_CIPHER_CTX_new \/ EVP_CIPHER_CTX_free
    \/ EVP_CipherInit_ex \/ EVP_CipherUpdate \/ EVP_CipherFinal_ex
    \/ CipherCtxQuery \/ EVP_CIPHER_CTX_set_key_length \/ EVP_CIPHER_iv_length
    \/ AlgorithmQuery
    \/ evp_aead_ctx_op
    \/ HMAC_CTX_new \/ HMAC_CTX_free \/ HMAC_Init_ex \/ HMAC_UpdateDirect
    \/ HMAC_Update \/ HMAC_Final \/ RAND_bytes
    \/ evpPkeyEcryptDecryptInit \/ evpPkeyEncryptDecrypt \/ EVP_PKEY_CTX_free
    \/ PkeyCtxCtrl \/ evpPkeyCtxCtrlMdOp \/ EVP_PKEY_CTX_set_rsa_oaep_label
    \/ PkeyQuery \/ evp_print_func \/ EVP_PKEY_free \/ EVP_PKEY_cmp
    \/ EcGroupQuery \/ EC_GROUP_new_by_curve_name \/ EC_GROUP_new_arbitrary
    \/ EcObjectNewFree \/ EcPointAffine \/ EcKeyOps \/ ECDH_compute_key
    \/ EVP_PKEY_new_EC_KEY \/ KeyCodec \/ RsaParams
    \/ OBJ_txt2nid \/ OBJ_txt2nid_longName
    \/ RSA_size \/ RsaCrypt \/ RSA_generate_key_ex

\* The digest and the cipher entry points, interleaved on one thread.
CryptoNext == (Next /\ UNCHANGED ctxs) \/ CipherNext

CryptoSpec == CryptoInit /\ [][CryptoNext]_cryptoVars

-----------------------------------------------------------------------------

\* Every variable of the composition stays in its domain.
CryptoTypeOK ==
    /\ StateTypeOK
    /\ \A c \in {cctx, hctx, pctx} : c \in {"none", "live"}
    /\ mdCall \in Calls \cup CipherCalls
    /\ mdRet \in {"void", "ok", "fail", "true", "false", "absent"}
    /\ mdExc \in Exceptions \cup {"BadPadding", "IllegalArgument"}
=============================================================================
