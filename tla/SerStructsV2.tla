---------------------------- MODULE SerStructsV2 ----------------------------
(*****************************************************************************)
(* The structures of API version 2 on the wire, which has codecs of its own  *)
(* (sd_api_v2), written without the macros: every pair x_enc, x_dec.         *)
(*****************************************************************************)
EXTENDS SerFormat

ble_gap_irk == Both(<<uint8array("irk", "BLE_GAP_SEC_KEY_LEN")>>)
ble_gap_addr == Both(<<uint8("addr_type"), uint8array("addr", "BLE_GAP_ADDR_LEN")>>)
ble_gap_sec_levels == Codec(
       <<bits(8, [lv1 |-> up(0), lv2 |-> up(1), lv3 |-> up(2), lv4 |-> up(3)])>>,
       <<bits(8, [lv1 |-> {0}, lv2 |-> {1}, lv3 |-> {2}, lv4 |-> {3}])>>)
ble_gap_enc_info ==
    Both(<<uint8array("ltk", "BLE_GAP_SEC_KEY_LEN"),
           bits(8, [lesc |-> {0}, auth |-> {1}, ltk_len |-> 2..7])>>)
ble_gap_master_id_t == Both(<<uint16("ediv"), uint8array("rand", "BLE_GAP_SEC_RAND_LEN")>>)
ble_gap_enc_key_t ==
    Both(<<field("enc_info", ble_gap_enc_info), field("master_id", ble_gap_master_id_t)>>)
ble_gap_id_key_t == Both(<<field("id_info", ble_gap_irk), field("id_addr_info", ble_gap_addr)>>)
ble_gap_sign_info == Both(<<uint8array("csrk", "BLE_GAP_SEC_KEY_LEN")>>)
ble_gap_lesc_p256_pk_t == Both(<<uint8array("pk", "BLE_GAP_LESC_P256_PK_LEN")>>)
ble_gap_sec_keys ==
    Both(<<cond("p_enc_key", ble_gap_enc_key_t), cond("p_id_key", ble_gap_id_key_t),
           cond("p_sign_key", ble_gap_sign_info), cond("p_pk", ble_gap_lesc_p256_pk_t)>>)
ble_gap_sec_kdist_t == Both(<<bits(8, [enc |-> {0}, id |-> {1}, sign |-> {2}])>>)
ble_gap_evt_auth_status_t == Codec(
       <<uint8("auth_status"), bits(8, [error_src |-> up(0), bonded |-> up(2)]),
         field("sm1_levels", ble_gap_sec_levels), field("sm2_levels", ble_gap_sec_levels),
         field("kdist_own", ble_gap_sec_kdist_t), field("kdist_peer", ble_gap_sec_kdist_t)>>,
       <<uint8("auth_status"), bits(8, [error_src |-> 0..1, bonded |-> {2}]),
         field("sm1_levels", ble_gap_sec_levels), field("sm2_levels", ble_gap_sec_levels),
         field("kdist_own", ble_gap_sec_kdist_t), field("kdist_peer", ble_gap_sec_kdist_t)>>)
ble_gap_conn_sec_mode == Codec(
       <<bits(8, [sm |-> up(0), lv |-> 4..7])>>,
       <<bits(8, [sm |-> 0..3, lv |-> up(4)])>>)
ble_gap_conn_sec_t == Both(<<field("sec_mode", ble_gap_conn_sec_mode), uint8("encr_key_size")>>)
ble_gap_evt_conn_sec_update_t == Both(<<field("conn_sec", ble_gap_conn_sec_t)>>)
ble_gap_evt_sec_info_request_t == Codec(
       <<field("peer_addr", ble_gap_addr), field("master_id", ble_gap_master_id_t),
         bits(8, [enc_info |-> up(0), id_info |-> up(1), sign_info |-> up(2)])>>,
       <<field("peer_addr", ble_gap_addr), field("master_id", ble_gap_master_id_t),
         bits(8, [enc_info |-> {0}, id_info |-> {1}, sign_info |-> {2}])>>)
ble_gap_conn_params_t ==
    Both(<<uint16("min_conn_interval"), uint16("max_conn_interval"), uint16("slave_latency"),
           uint16("conn_sup_timeout")>>)
ble_gap_evt_connected_t == Codec(
       <<field("peer_addr", ble_gap_addr), field("own_addr", ble_gap_addr), uint8("role"),
         bits(8, [irk_match |-> up(0), irk_match_idx |-> up(1)]),
         field("conn_params", ble_gap_conn_params_t)>>,
       <<field("peer_addr", ble_gap_addr), field("own_addr", ble_gap_addr), uint8("role"),
         bits(8, [irk_match |-> {0}, irk_match_idx |-> 1..7]),
         field("conn_params", ble_gap_conn_params_t)>>)
ble_gap_sec_params_t ==
    Both(<<bits(8, [bond |-> {0}, mitm |-> {1}, lesc |-> {2}, keypress |-> {3},
                    io_caps |-> 4..6, oob |-> {7}]), uint8("min_key_size"),
           uint8("max_key_size"), field("kdist_own", ble_gap_sec_kdist_t),
           field("kdist_peer", ble_gap_sec_kdist_t)>>)
ble_gap_evt_sec_params_request_t == Both(<<field("peer_params", ble_gap_sec_params_t)>>)
ble_gap_evt_conn_param_update_t == Both(<<field("conn_params", ble_gap_conn_params_t)>>)
ble_gap_evt_conn_param_update_request_t == Both(<<field("conn_params", ble_gap_conn_params_t)>>)
ble_gap_evt_disconnected_t == Both(<<uint8("reason")>>)
ble_gap_whitelist_t ==
    Both(<<uint8("addr_count"), limit("addr_count", "BLE_GAP_WHITELIST_ADDR_MAX_COUNT"),
           cond("pp_addrs", None),
           given("pp_addrs", <<each("pp_addrs", Both(<<cond("", ble_gap_addr)>>),
                                    "addr_count")>>), uint8("irk_count"),
           limit("irk_count", "BLE_GAP_WHITELIST_IRK_MAX_COUNT"), cond("pp_irks", None),
           given("pp_irks", <<each("pp_irks", Both(<<cond("", ble_gap_irk)>>),
                                   "irk_count")>>)>>)
ble_gap_scan_params_t ==
    Both(<<bits(8, [active |-> {0}, selective |-> 1..7]),
           cond("p_whitelist", ble_gap_whitelist_t), uint16("interval"), uint16("window"),
           uint16("timeout")>>)
ble_gap_sec_keyset_t ==
    Both(<<field("keys_own", ble_gap_sec_keys), field("keys_peer", ble_gap_sec_keys)>>)
ble_gap_evt_sec_request_t ==
    Both(<<bits(8, [bond |-> {0}, mitm |-> {1}, lesc |-> {2}, keypress |-> {3}])>>)
ble_gap_opt_ch_map_t == Both(<<uint16("conn_handle"), uint8array("ch_map", "5")>>)
ble_gap_opt_local_conn_latency_t ==
    Both(<<uint16("conn_handle"), uint16("requested_latency"),
           cond("p_actual_latency", uint16_t)>>)
ble_gap_opt_passkey_t == Both(<<buf("p_passkey", "BLE_GAP_PASSKEY_LEN")>>)
ble_gap_opt_privacy_t == Both(<<cond("p_irk", ble_gap_irk), uint16("interval_s")>>)
ble_gap_opt_scan_req_report_t == Codec(
       <<uint8("enable")>>,
       <<bits(8, [enable |-> {0}])>>)
ble_gap_opt_compat_mode_t == Codec(
       <<uint8("mode_1_enable")>>,
       <<bits(8, [mode_1_enable |-> {0}])>>)
ble_gap_adv_ch_mask_t == Codec(
       <<bits(8, [ch_37_off |-> up(0), ch_38_off |-> up(1), ch_39_off |-> up(2)])>>,
       <<bits(8, [ch_37_off |-> {0}, ch_38_off |-> {1}, ch_39_off |-> {2}])>>)
ble_gap_enable_params_t ==
    Both(<<uint8("periph_conn_count"), uint8("central_conn_count"),
           uint8("central_sec_count")>>)
ble_gap_lesc_dhkey_t == Both(<<uint8array("key", "BLE_GAP_LESC_DHKEY_LEN")>>)
ble_gap_lesc_oob_data_t ==
    Both(<<field("addr", ble_gap_addr), buf("r", "BLE_GAP_SEC_KEY_LEN"),
           buf("c", "BLE_GAP_SEC_KEY_LEN")>>)
ble_gattc_evt_char_val_by_uuid_read_rsp_t ==
    Both(<<uint16("count"), uint16("value_len"),
           each("handle_value", Both(<<uint16("handle"), uint8array("p_value", "value_len")>>),
                "count")>>)
ble_gattc_evt_char_vals_read_rsp_t == Both(<<uint16("len"), uint8array("values", "len")>>)
ble_gattc_handle_range_t == Both(<<uint16("start_handle"), uint16("end_handle")>>)
ble_uuid_t == Both(<<uint16("uuid"), uint8("type")>>)
ble_gattc_service_t ==
    Both(<<field("uuid", ble_uuid_t), field("handle_range", ble_gattc_handle_range_t)>>)
ble_gattc_include_t == Both(<<uint16("handle"), field("included_srvc", ble_gattc_service_t)>>)
ble_gattc_evt_rel_disc_rsp_t ==
    Both(<<uint16("count"), each("includes", ble_gattc_include_t, "count")>>)
ble_gattc_write_params_t ==
    Both(<<uint8("write_op"), uint8("flags"), uint16("handle"), uint16("offset"),
           len16data("p_value", "len")>>)
ble_gattc_attr_info_t_16 ==
    Both(<<uint16("handle"), sub("info", <<field("uuid16", ble_uuid_t)>>)>>)
ble_uuid128_t == Both(<<uint8array("uuid128", "p_uuid->uuid128")>>)
ble_gattc_attr_info_t_128 ==
    Both(<<uint16("handle"), sub("info", <<field("uuid128", ble_uuid128_t)>>)>>)
ble_gattc_evt_attr_info_disc_rsp_t ==
    Both(<<uint16("count"), uint8("format"),
           oneOf("format", [BLE_GATTC_ATTR_INFO_FORMAT_16BIT |->
                                <<each("attr_info", ble_gattc_attr_info_t_16, "count")>>,
                            BLE_GATTC_ATTR_INFO_FORMAT_128BIT |->
                                <<each("attr_info", ble_gattc_attr_info_t_128, "count")>>])>>)
ser_ble_gatts_char_pf ==
    Both(<<uint8("format"), uint8("exponent"), uint16("unit"), uint8("name_space"),
           uint16("desc")>>)
ble_gatts_attr_md == Codec(
       <<field("read_perm", ble_gap_conn_sec_mode), field("write_perm", ble_gap_conn_sec_mode),
         bits(8, [vlen |-> up(0), vloc |-> up(1), rd_auth |-> up(3), wr_auth |-> up(4)]),
         only("vloc", "BLE_GATTS_VLOC_STACK")>>,
       <<field("read_perm", ble_gap_conn_sec_mode), field("write_perm", ble_gap_conn_sec_mode),
         bits(8, [vlen |-> up(0), vloc |-> up(1), rd_auth |-> up(3), wr_auth |-> up(4)])>>)
ble_gatts_char_md == Codec(
       <<sub("char_props",
             <<bits(8, [broadcast |-> up(0), read |-> up(1), write_wo_resp |-> up(2),
                        write |-> up(3), notify |-> up(4), indicate |-> up(5),
                        auth_signed_wr |-> up(6)])>>),
         sub("char_ext_props", <<bits(8, [reliable_wr |-> up(0), wr_aux |-> up(1)])>>),
         uint16("char_user_desc_max_size"),
         limit("char_user_desc_size", "BLE_GATTS_VAR_ATTR_LEN_MAX"),
         len16data("p_char_user_desc", "char_user_desc_size"),
         cond("p_char_pf", ser_ble_gatts_char_pf), cond("p_user_desc_md", ble_gatts_attr_md),
         cond("p_cccd_md", ble_gatts_attr_md), cond("p_sccd_md", ble_gatts_attr_md)>>,
       <<sub("char_props",
             <<bits(8, [broadcast |-> up(0), read |-> up(1), write_wo_resp |-> up(2),
                        write |-> up(3), notify |-> up(4), indicate |-> up(5),
                        auth_signed_wr |-> up(6)])>>),
         sub("char_ext_props", <<bits(8, [reliable_wr |-> up(0), wr_aux |-> up(1)])>>),
         uint16("char_user_desc_max_size"),
         len16data("p_char_user_desc", "char_user_desc_size"),
         cond("p_char_pf", ser_ble_gatts_char_pf), cond("p_user_desc_md", ble_gatts_attr_md),
         cond("p_cccd_md", ble_gatts_attr_md), cond("p_sccd_md", ble_gatts_attr_md)>>)
ble_gatts_attr == Codec(
       <<cond("p_uuid", ble_uuid_t), cond("p_attr_md", ble_gatts_attr_md), uint16("init_offs"),
         uint16("max_len"), limit("init_len", "BLE_GATTS_VAR_ATTR_LEN_MAX"),
         len16data("p_value", "init_len")>>,
       <<cond("p_uuid", ble_uuid_t), cond("p_attr_md", ble_gatts_attr_md), uint16("init_offs"),
         uint16("max_len"), len16data("p_value", "init_len")>>)
ble_gatts_char_handles ==
    Both(<<uint16("value_handle"), uint16("user_desc_handle"), uint16("cccd_handle"),
           uint16("sccd_handle")>>)
ble_gatts_evt_write_t ==
    Both(<<uint16("handle"), field("uuid", ble_uuid_t), uint8("op"), uint8("auth_required"),
           uint16("offset"), uint16("len"), uint8array("data", "len")>>)
ble_gatts_evt_read_t == Both(<<uint16("handle"), field("uuid", ble_uuid_t), uint16("offset")>>)
ble_gatts_evt_rw_authorize_request_t ==
    Both(<<uint8("type"),
           oneOf("type", [BLE_GATTS_AUTHORIZE_TYPE_READ |->
                              <<sub("request", <<field("read", ble_gatts_evt_read_t)>>)>>,
                          BLE_GATTS_AUTHORIZE_TYPE_WRITE |->
                              <<sub("request", <<field("write", ble_gatts_evt_write_t)>>)>>])>>)
ble_gatts_authorize_params_t ==
    Both(<<uint16("gatt_status"), uint8("update"), uint16("offset"),
           len16data("p_data", "len")>>)
ble_gatts_rw_authorize_reply_params_t ==
    Both(<<uint8("type"),
           oneOf("type", [BLE_GATTS_AUTHORIZE_TYPE_READ |->
                              <<sub("params", <<field("read",
                                                      ble_gatts_authorize_params_t)>>)>>,
                          BLE_GATTS_AUTHORIZE_TYPE_WRITE |->
                              <<sub("params", <<field("write",
                                                      ble_gatts_authorize_params_t)>>)>>])>>)
ble_gatts_enable_params_t ==
    Both(<<bits(8, [service_changed |-> {0}]), uint32("attr_tab_size")>>)
ble_gatts_value_t == Both(<<uint16("len"), uint16("offset"), buf("p_value", "len")>>)
ble_l2cap_header_t == Both(<<uint16("len"), uint16("cid")>>)
ble_l2cap_evt_rx_t == Both(<<field("header", ble_l2cap_header_t), uint8array("data", "len")>>)
ble_conn_bw_count_t == Both(<<uint8("high_count"), uint8("mid_count"), uint8("low_count")>>)
ble_conn_bw_counts_t ==
    Both(<<field("tx_counts", ble_conn_bw_count_t), field("rx_counts", ble_conn_bw_count_t)>>)
ble_common_enable_params_t ==
    Both(<<uint16("vs_uuid_count"), cond("p_conn_bw_counts", ble_conn_bw_counts_t)>>)
ble_enable_params_t ==
    Both(<<field("common_enable_params", ble_common_enable_params_t),
           field("gap_enable_params", ble_gap_enable_params_t),
           field("gatts_enable_params", ble_gatts_enable_params_t)>>)
ble_conn_bw_t == Both(<<uint8("conn_bw_rx"), uint8("conn_bw_tx")>>)
ble_common_opt_conn_bw_t == Both(<<uint8("role"), field("conn_bw", ble_conn_bw_t)>>)
ble_pa_lna_cfg_t == Both(<<bits(8, [enable |-> {0}, active_high |-> {1}, gpio_pin |-> up(2)])>>)
ble_common_opt_pa_lna_t ==
    Both(<<field("pa_cfg", ble_pa_lna_cfg_t), field("lna_cfg", ble_pa_lna_cfg_t),
           uint8("ppi_ch_id_set"), uint8("ppi_ch_id_clr"), uint8("gpiote_ch_id")>>)
=============================================================================
